---- MODULE Spec2Model ----
(***************************************************************************)
(* Model of the investment recommendation engine of smart-fin-bd:          *)
(*   - InvestmentRecommendationService (src/src/utils/securityValidator.ts)*)
(*   - the risk questionnaire of RiskAssessmentScreen                      *)
(*     (src/src/screens/profile/RiskAssessmentScreen.tsx)                  *)
(*   - the zustand stores useAuthStore and useUserStore                    *)
(*                                                                         *)
(* The specifications of the module, one per component, share all the      *)
(* variables:                                                              *)
(*   SpecRec     generateRecommendations on a drawn user context           *)
(*   SpecLarge   generateRecommendations for incomes of millions of taka   *)
(*   SpecService the service methods called one after the other            *)
(*   SpecRisk    the questionnaire screen (handleAnswer/Next/Previous)     *)
(*   SpecScore   calculateRiskScore on complete answer sets                *)
(*   SpecPartial calculateRiskScore on incomplete answer sets              *)
(*   SpecProj    calculateProjection on drawn arguments                    *)
(*   SpecAuth    useAuthStore (login, register, logout, refreshAuthToken)  *)
(*   SpecStore   useUserStore (the portfolio and its investments)          *)
(*                                                                         *)
(* Numbers. JavaScript numbers are IEEE doubles.  Money amounts and        *)
(* percentages are modelled as exact rationals (a numerator over a named   *)
(* denominator).  The projection inputs are drawn from dyadic rationals    *)
(* (halves, rates that are multiples of 25%), for which every double       *)
(* operation of the code is exact, so the model computes the very values   *)
(* the code computes.  A division by zero yields NaN or +-Infinity as in   *)
(* IEEE arithmetic (JsDiv), and comparisons with NaN are false (JsGE).     *)
(***************************************************************************)
EXTENDS Integers, Sequences, FiniteSets, TLC

VARIABLES
    bangladeshInvestments, \* the module-level instrument catalog
    user,                  \* generateRecommendations argument: [age]
    financialProfile,      \* argument: income, expenses, savings, dependents
    riskAssessment,        \* argument: [tolerance]
    allocation,            \* local `allocation` of the last call (<<>> before)
    recommendations,       \* value returned by the last call
    recCalled,             \* TRUE once generateRecommendations has returned
                           \* for the request that holds the arguments above
    serviceResult,         \* <<>> or <<value returned by the last call of
                           \* getAllInvestments, getInvestmentDetails or
                           \* calculateOptimalPortfolio>>
    currentQuestion,       \* RiskAssessmentScreen useState(0)
    answers,               \* RiskAssessmentScreen useState({}): 0 = undefined
    assessment,            \* argument of setRiskAssessment: <<>> or <<record>>
    screen,                \* "open", "alert" (result Alert shown) or "closed"
    projArgs,              \* calculateProjection arguments
    projection,            \* <<>> or <<result of the last call>>
    prevProjection,        \* <<>> or <<result of the call before>>
    now,                   \* Date.now(), in milliseconds
    authStore,             \* state of useAuthStore
    authPending,           \* async calls of useAuthStore awaiting their timer
    authThrown,            \* <<>> or <<message of the error the last call of
                           \* useAuthStore threw>>
    userStore,             \* state of useUserStore
    userStoreCall          \* <<>> or <<the last call of useUserStore: its
                           \* name and whether the portfolio was non-null>>

vars == <<bangladeshInvestments, user, financialProfile, riskAssessment,
          allocation, recommendations, recCalled, serviceResult,
          currentQuestion, answers,
          assessment, screen, projArgs, projection, prevProjection,
          now, authStore, authPending, authThrown, userStore, userStoreCall>>

recVars == <<bangladeshInvestments, user, financialProfile, riskAssessment,
             allocation, recommendations, recCalled, serviceResult>>

riskVars == <<currentQuestion, answers, assessment, screen>>

projVars == <<projArgs, projection, prevProjection>>

storeVars == <<now, authStore, authPending, authThrown, userStore, userStoreCall>>

----------------------------------------------------------------------------
(* Bounds of the drawn inputs *)

\* monthlyIncome is drawn from {0, IncomeUnit, ..., MaxIncomeUnits * IncomeUnit}
IncomeUnit == 25000

MaxIncomeUnits == 4

\* monthlyExpenses is drawn from multiples of ExpenseUnit
ExpenseUnit == 7500

MaxExpenseUnits == 5

\* currentSavings is drawn from {0, SavingsUnit}
SavingsUnit == 45000

MaxDependents == 3

\* calculateProjection: amount and monthlyContribution are drawn in halves of
\* a taka, annualReturn in steps of 25 percent, years up to MaxYears
MaxAmountHalves == 5

MaxMonthlyHalves == 2

MaxRateSteps == 3

MaxYears == 3

\* Age range accepted at registration (Joi.number().min(18).max(100))
MinAge == 18

MaxAge == 100

----------------------------------------------------------------------------
(* IEEE division and comparison, as far as the code uses them *)

Abs(x) == IF x < 0 THEN -x ELSE x

\* a / b on doubles holding the integers a and b
JsDiv(a, b) ==
    IF b # 0
    THEN [kind |-> "finite",
          num |-> IF b > 0 THEN a ELSE -a,
          den |-> Abs(b)]
    ELSE IF a = 0 THEN [kind |-> "NaN", num |-> 0, den |-> 1]
    ELSE IF a > 0 THEN [kind |-> "+Infinity", num |-> 1, den |-> 1]
    ELSE [kind |-> "-Infinity", num |-> -1, den |-> 1]

\* Mutant: a comparison with NaN or -Infinity is true
JsGEUnordered(x, p, q) ==
    CASE x.kind = "finite" -> x.num * q >= p * x.den
      [] OTHER -> TRUE

\* x >= p / q for a quotient x and a literal p/q (q > 0); false for NaN
JsGE(x, p, q) ==
    CASE x.kind = "finite" -> x.num * q >= p * x.den
      [] x.kind = "+Infinity" -> TRUE
      [] OTHER -> FALSE

Min(a, b) == IF a < b THEN a ELSE b

Max(a, b) == IF a > b THEN a ELSE b

----------------------------------------------------------------------------
(* Enumerations of @/types *)

RiskTolerances == {"conservative", "moderate", "aggressive"}

----------------------------------------------------------------------------
(* The instrument catalog.  expectedReturn is in tenths of a percent;      *)
(* maxInvestment is <<>> when the entry does not define it.  The           *)
(* descriptive fields (names, features, pros, cons, eligibility, provider) *)
(* carry no computation and are left out.                                  *)

Catalog ==
    << [type |-> "sanchayapatra", expectedReturn |-> 85, minInvestment |-> 1000,
        maxInvestment |-> <<3000000>>, riskLevel |-> "low",
        liquidityDays |-> 365, taxBenefit |-> TRUE, category |-> "government"],
       [type |-> "dps", expectedReturn |-> 72, minInvestment |-> 500,
        maxInvestment |-> <<>>, riskLevel |-> "low",
        liquidityDays |-> 30, taxBenefit |-> FALSE, category |-> "bank"],
       [type |-> "fixed_deposit", expectedReturn |-> 65, minInvestment |-> 1000,
        maxInvestment |-> <<>>, riskLevel |-> "low",
        liquidityDays |-> 7, taxBenefit |-> FALSE, category |-> "bank"],
       [type |-> "mutual_fund", expectedReturn |-> 123, minInvestment |-> 5000,
        maxInvestment |-> <<>>, riskLevel |-> "medium",
        liquidityDays |-> 3, taxBenefit |-> FALSE, category |-> "mutual_fund"],
       [type |-> "stock", expectedReturn |-> 158, minInvestment |-> 10000,
        maxInvestment |-> <<>>, riskLevel |-> "high",
        liquidityDays |-> 1, taxBenefit |-> FALSE, category |-> "stock"],
       [type |-> "bond", expectedReturn |-> 78, minInvestment |-> 100000,
        maxInvestment |-> <<>>, riskLevel |-> "low",
        liquidityDays |-> 30, taxBenefit |-> TRUE, category |-> "government"] >>

----------------------------------------------------------------------------
(* InvestmentRecommendationService *)

\* Array.prototype.filter: the elements satisfying Keep(_), in order
RECURSIVE FilterSeq(_, _)
FilterSeq(s, keep) ==
    IF s = <<>> THEN <<>>
    ELSE IF Head(s).riskLevel \in keep
         THEN <<Head(s)>> \o FilterSeq(Tail(s), keep)
         ELSE FilterSeq(Tail(s), keep)

\* Mutant: the moderate case keeps every instrument
filterByRiskToleranceModerateAll(investments, riskTolerance) ==
    CASE riskTolerance = "conservative" -> FilterSeq(investments, {"low"})
      [] riskTolerance = "moderate" -> investments
      [] riskTolerance = "aggressive" -> investments
      [] OTHER -> FilterSeq(investments, {"low"})

filterByRiskTolerance(investments, riskTolerance) ==
    CASE riskTolerance = "conservative" -> FilterSeq(investments, {"low"})
      [] riskTolerance = "moderate" -> FilterSeq(investments, {"low", "medium"})
      [] riskTolerance = "aggressive" -> investments
      [] OTHER -> FilterSeq(investments, {"low"})

----------------------------------------------------------------------------
(* IEEE doubles of calculateAssetAllocation.  A non-negative double x is   *)
(* held as the natural number x * 2^54, written in limbs of LimbBits bits, *)
(* least significant first, with no zero limb at the top; every double     *)
(* from 1/2 up is such a number, and so are the exact products and sums    *)
(* before they are rounded.                                                *)

LimbBits == 15

LimbBase == 2 ^ LimbBits

\* Bits of the significand of a double
MantissaBits == 53

\* The limbs of s plus the carry c, each brought below LimbBase
RECURSIVE Carry(_, _)
Carry(s, c) ==
    IF s = <<>>
    THEN IF c = 0 THEN <<>> ELSE <<c % LimbBase>> \o Carry(<<>>, c \div LimbBase)
    ELSE <<(Head(s) + c) % LimbBase>>
         \o Carry(Tail(s), (Head(s) + c) \div LimbBase)

\* s * k for an integer 0 <= k < 2^16
BigTimes(s, k) ==
    IF k = 0 THEN <<>> ELSE Carry([i \in 1..Len(s) |-> s[i] * k], 0)

BigPlus(x, y) ==
    Carry([i \in 1..Max(Len(x), Len(y)) |->
              (IF i <= Len(x) THEN x[i] ELSE 0)
              + (IF i <= Len(y) THEN y[i] ELSE 0)], 0)

RECURSIVE BigLess(_, _)
BigLess(x, y) ==
    IF Len(x) # Len(y) THEN Len(x) < Len(y)
    ELSE IF x = <<>> THEN FALSE
    ELSE IF x[Len(x)] # y[Len(y)] THEN x[Len(x)] < y[Len(y)]
    ELSE BigLess(SubSeq(x, 1, Len(x) - 1), SubSeq(y, 1, Len(y) - 1))

RECURSIVE BitsOf(_)
BitsOf(n) == IF n = 0 THEN 0 ELSE 1 + BitsOf(n \div 2)

BitLength(s) ==
    IF s = <<>> THEN 0 ELSE LimbBits * (Len(s) - 1) + BitsOf(s[Len(s)])

\* Mutant: the bits below the significand are dropped (rounding towards 0)
RoundToDoubleDown(s) ==
    IF BitLength(s) <= MantissaBits THEN s
    ELSE LET unit == 2 ^ (BitLength(s) - MantissaBits)
         IN  [s EXCEPT ![1] = s[1] - (s[1] % unit)]

\* The double nearest to the exact value s, ties to the even significand.
\* The values met here are below 2^14, so fewer than LimbBits bits are
\* dropped and they all lie in the lowest limb.
RoundToDouble(s) ==
    IF BitLength(s) <= MantissaBits THEN s
    ELSE LET unit == 2 ^ (BitLength(s) - MantissaBits)
             low == s[1] % unit
             kept == [s EXCEPT ![1] = s[1] - low]
             odd == (s[1] \div unit) % 2 = 1
         IN  IF low * 2 > unit \/ (low * 2 = unit /\ odd)
             THEN BigPlus(kept, <<unit>>)
             ELSE kept

\* The double of the integer k: k * 2^54
DoubleOfInt(k) == BigTimes(<<0, 0, 0, 512>>, k)

\* The literal 0.6: the double 0x1.3333333333333p-1,
\* 10808639105689190 * 2^-54
Double0_6 == <<26214, 19660, 6553, 307>>

\* The literal 0.4: the double 0x1.999999999999ap-2,
\* 7205759403792794 * 2^-54
Double0_4 == <<6554, 13107, 26214, 204>>

\* k * c for the double c and the double of the integer k
DoubleTimesInt(c, k) == RoundToDouble(BigTimes(c, k))

DoublePlus(x, y) == RoundToDouble(BigPlus(x, y))

\* Math.min
DoubleMin(x, y) == IF BigLess(y, x) THEN y ELSE x

----------------------------------------------------------------------------
(* calculateAssetAllocation *)

\* government and bank are the two products taken in exact arithmetic, in
\* tenths of a percent (PctDen); the recommended amounts are computed from
\* them.  governmentBits and bankBits are the doubles the code returns.
PctDen == 10

\* Mutant: the 0.6 and 0.4 shares are swapped
calculateAssetAllocationSwapped(age, riskTolerance) ==
    LET base == 100 - age
        stockAllocation ==
            CASE riskTolerance = "conservative" -> Max(base - 20, 10)
              [] riskTolerance = "aggressive" -> Min(base + 20, 80)
              [] OTHER -> base
        bondAllocation == 100 - stockAllocation
    IN  [stocks |-> stockAllocation * PctDen,
         bonds |-> bondAllocation * PctDen,
         government |-> Min(bondAllocation * 4, 40 * PctDen),
         bank |-> Min(bondAllocation * 6, 30 * PctDen),
         governmentBits |-> DoubleMin(DoubleTimesInt(Double0_4, bondAllocation),
                                      DoubleOfInt(40)),
         bankBits |-> DoubleMin(DoubleTimesInt(Double0_6, bondAllocation),
                                DoubleOfInt(30))]

calculateAssetAllocation(age, riskTolerance) ==
    LET base == 100 - age
        stockAllocation ==
            CASE riskTolerance = "conservative" -> Max(base - 20, 10)
              [] riskTolerance = "aggressive" -> Min(base + 20, 80)
              [] OTHER -> base
        bondAllocation == 100 - stockAllocation
    IN  [stocks |-> stockAllocation * PctDen,
         bonds |-> bondAllocation * PctDen,
         government |-> Min(bondAllocation * 6, 40 * PctDen),
         bank |-> Min(bondAllocation * 4, 30 * PctDen),
         governmentBits |-> DoubleMin(DoubleTimesInt(Double0_6, bondAllocation),
                                      DoubleOfInt(40)),
         bankBits |-> DoubleMin(DoubleTimesInt(Double0_4, bondAllocation),
                                DoubleOfInt(30))]

ageFactor(age, riskLevel) ==
    IF age < 30
    THEN (IF riskLevel = "high" THEN 25 ELSE IF riskLevel = "medium" THEN 20 ELSE 15)
    ELSE IF age < 50
    THEN (IF riskLevel = "medium" THEN 25 ELSE IF riskLevel = "low" THEN 20 ELSE 15)
    ELSE (IF riskLevel = "low" THEN 25 ELSE IF riskLevel = "medium" THEN 15 ELSE 10)

toleranceFactor(tolerance, riskLevel) ==
    IF tolerance = "conservative"
    THEN (IF riskLevel = "low" THEN 25 ELSE 0)
    ELSE IF tolerance = "moderate"
    THEN (IF riskLevel = "medium" THEN 25 ELSE IF riskLevel = "low" THEN 20 ELSE 10)
    ELSE (IF riskLevel = "high" THEN 25 ELSE IF riskLevel = "medium" THEN 20 ELSE 15)

\* Mutant: the highest income tier earns 25 points
incomeFactorGenerous(monthlyIncome) ==
    IF monthlyIncome >= 100000 THEN 25
    ELSE IF monthlyIncome >= 50000 THEN 15
    ELSE IF monthlyIncome >= 25000 THEN 10
    ELSE 5

incomeFactor(monthlyIncome) ==
    IF monthlyIncome >= 100000 THEN 20
    ELSE IF monthlyIncome >= 50000 THEN 15
    ELSE IF monthlyIncome >= 25000 THEN 10
    ELSE 5

\* Mutant: points proportional to the savings rate instead of tiers
savingsFactorProportional(monthlyIncome, monthlyExpenses) ==
    IF monthlyIncome = 0 THEN 3
    ELSE ((monthlyIncome - monthlyExpenses) * 50) \div monthlyIncome

savingsFactor(monthlyIncome, monthlyExpenses) ==
    LET savingsRate == JsDiv(monthlyIncome - monthlyExpenses, monthlyIncome)
    IN  IF JsGE(savingsRate, 3, 10) THEN 15
        ELSE IF JsGE(savingsRate, 2, 10) THEN 12
        ELSE IF JsGE(savingsRate, 1, 10) THEN 8
        ELSE 3

\* Mutant: two dependents fall in the lowest tier
dependentsFactorStrict(dependents) ==
    IF dependents = 0 THEN 10
    ELSE IF dependents < 2 THEN 7
    ELSE 3

dependentsFactor(dependents) ==
    IF dependents = 0 THEN 10
    ELSE IF dependents <= 2 THEN 7
    ELSE 3

emergencyFactor(currentSavings, monthlyExpenses) ==
    LET emergencyFundMonths == JsDiv(currentSavings, monthlyExpenses)
    IN  IF JsGE(emergencyFundMonths, 6, 1) THEN 5
        ELSE IF JsGE(emergencyFundMonths, 3, 1) THEN 3
        ELSE 1

calculateSuitabilityScore(investment, u, fp, ra) ==
    LET score == ageFactor(u.age, investment.riskLevel)
                 + toleranceFactor(ra.tolerance, investment.riskLevel)
                 + incomeFactor(fp.monthlyIncome)
                 + savingsFactor(fp.monthlyIncome, fp.monthlyExpenses)
                 + dependentsFactor(fp.dependents)
                 + emergencyFactor(fp.currentSavings, fp.monthlyExpenses)
    IN  Min(score, 100)

\* `x || d` on a number: d when x is 0 (or NaN), x otherwise
OrDefault(x, d) == IF x = 0 THEN d ELSE x

\* The amount is returned in units of 1 / AmountDen taka: the quotient
\* (availableAmount * percentage) / 100 with percentage in tenths.
AmountDen == 1000

\* Mutant: the amount is returned without Math.max
calculateRecommendedAmountNoFloor(investment, availableAmount, alloc) ==
    LET percentage ==
            CASE investment.category = "government" ->
                     OrDefault(alloc.government, 20 * PctDen)
              [] investment.category = "bank" ->
                     OrDefault(alloc.bank, 20 * PctDen)
              [] investment.category \in {"stock", "mutual_fund"} ->
                     OrDefault(alloc.stocks, 30 * PctDen)
              [] OTHER -> 10 * PctDen
    IN  availableAmount * percentage

\* Mutant: the size of availableAmount is used, without its sign
calculateRecommendedAmountAbs(investment, availableAmount, alloc) ==
    LET percentage ==
            CASE investment.category = "government" ->
                     OrDefault(alloc.government, 20 * PctDen)
              [] investment.category = "bank" ->
                     OrDefault(alloc.bank, 20 * PctDen)
              [] investment.category \in {"stock", "mutual_fund"} ->
                     OrDefault(alloc.stocks, 30 * PctDen)
              [] OTHER -> 10 * PctDen
        recommendedAmount == Abs(availableAmount) * percentage
    IN  Max(recommendedAmount, investment.minInvestment * AmountDen)

calculateRecommendedAmount(investment, availableAmount, alloc) ==
    LET percentage ==
            CASE investment.category = "government" ->
                     OrDefault(alloc.government, 20 * PctDen)
              [] investment.category = "bank" ->
                     OrDefault(alloc.bank, 20 * PctDen)
              [] investment.category \in {"stock", "mutual_fund"} ->
                     OrDefault(alloc.stocks, 30 * PctDen)
              [] OTHER -> 10 * PctDen
        recommendedAmount == availableAmount * percentage
    IN  Max(recommendedAmount, investment.minInvestment * AmountDen)

generateReasoning(investment, u, suitabilityScore) ==
    [ageGroup |-> IF u.age < 30 THEN "young"
                  ELSE IF u.age < 50 THEN "middle" ELSE "senior",
     fit |-> IF suitabilityScore >= 80 THEN "very suitable"
             ELSE IF suitabilityScore >= 70 THEN "good" ELSE "moderate",
     expectedReturn |-> investment.expectedReturn,
     riskLevel |-> investment.riskLevel]

\* The suitability threshold of generateRecommendations
MinSuitability == 60

\* Mutant: the suitability threshold is not applied
recommendationForNoThreshold(investment, u, fp, ra, availableAmount, alloc) ==
    LET suitabilityScore == calculateSuitabilityScore(investment, u, fp, ra)
        recommendedAmount ==
            calculateRecommendedAmount(investment, availableAmount, alloc)
    IN  IF recommendedAmount >= investment.minInvestment * AmountDen
        THEN << [investmentType |-> investment.type,
                 recommendedAmount |-> recommendedAmount,
                 expectedReturn |-> investment.expectedReturn,
                 riskLevel |-> investment.riskLevel,
                 reasoning |-> generateReasoning(investment, u, suitabilityScore),
                 suitabilityScore |-> suitabilityScore] >>
        ELSE <<>>

\* The forEach body: the recommendations pushed for one investment
recommendationFor(investment, u, fp, ra, availableAmount, alloc) ==
    LET suitabilityScore == calculateSuitabilityScore(investment, u, fp, ra)
        recommendedAmount ==
            calculateRecommendedAmount(investment, availableAmount, alloc)
    IN  IF suitabilityScore >= MinSuitability
           /\ recommendedAmount >= investment.minInvestment * AmountDen
        THEN << [investmentType |-> investment.type,
                 recommendedAmount |-> recommendedAmount,
                 expectedReturn |-> investment.expectedReturn,
                 riskLevel |-> investment.riskLevel,
                 reasoning |-> generateReasoning(investment, u, suitabilityScore),
                 suitabilityScore |-> suitabilityScore] >>
        ELSE <<>>

\* Mutant: every investment is visited twice
RECURSIVE collectRecommendationsTwice(_, _, _, _, _, _)
collectRecommendationsTwice(investments, u, fp, ra, availableAmount, alloc) ==
    IF investments = <<>> THEN <<>>
    ELSE recommendationFor(Head(investments), u, fp, ra, availableAmount, alloc)
         \o recommendationFor(Head(investments), u, fp, ra, availableAmount, alloc)
         \o collectRecommendationsTwice(Tail(investments), u, fp, ra,
                                        availableAmount, alloc)

RECURSIVE collectRecommendations(_, _, _, _, _, _)
collectRecommendations(investments, u, fp, ra, availableAmount, alloc) ==
    IF investments = <<>> THEN <<>>
    ELSE recommendationFor(Head(investments), u, fp, ra, availableAmount, alloc)
         \o collectRecommendations(Tail(investments), u, fp, ra,
                                   availableAmount, alloc)

\* Mutant: the comparator with its operands swapped (ascending order)
compareScoreAscending(a, b) == a.suitabilityScore - b.suitabilityScore

\* The comparator (a, b) => b.suitabilityScore - a.suitabilityScore
compareScore(a, b) == b.suitabilityScore - a.suitabilityScore

\* Mutant: an insertion that puts r before the elements that compare equal
\* to it (an unstable sort)
RECURSIVE insertSortedBeforeEquals(_, _)
insertSortedBeforeEquals(s, r) ==
    IF s = <<>> THEN <<r>>
    ELSE IF compareScore(Head(s), r) >= 0
         THEN <<r>> \o s
         ELSE <<Head(s)>> \o insertSortedBeforeEquals(Tail(s), r)

\* Insert r into the sorted sequence s after every element that does not
\* compare greater than it (a stable insertion, as Array.prototype.sort is
\* stable since ES2019).
RECURSIVE insertSorted(_, _)
insertSorted(s, r) ==
    IF s = <<>> THEN <<r>>
    ELSE IF compareScore(Head(s), r) > 0
         THEN <<r>> \o s
         ELSE <<Head(s)>> \o insertSorted(Tail(s), r)

RECURSIVE sortRecommendations(_)
sortRecommendations(s) ==
    IF s = <<>> THEN <<>>
    ELSE insertSorted(sortRecommendations(SubSeq(s, 1, Len(s) - 1)), s[Len(s)])

\* Mutant: the result array is a module-level array kept between calls
recommendationsKept == recommendations

\* const recommendations = []: a new array in every call
newRecommendations == <<>>

generateRecommendations(investments, u, fp, ra) ==
    LET availableAmount == fp.monthlyIncome - fp.monthlyExpenses
        suitableInvestments == filterByRiskTolerance(investments, ra.tolerance)
        alloc == calculateAssetAllocation(u.age, ra.tolerance)
    IN  sortRecommendations(
            newRecommendations
            \o collectRecommendations(suitableInvestments, u, fp, ra,
                                      availableAmount, alloc))

\* Mutant: the sort is applied to suitableInvestments, which for an
\* aggressive user is the catalog array itself
catalogSortedInPlace(investments, u, fp, ra) ==
    IF ra.tolerance \in {"conservative", "moderate"}
    THEN investments
    ELSE LET scored ==
                 [i \in 1..Len(investments) |->
                     [inv |-> investments[i],
                      suitabilityScore |->
                          calculateSuitabilityScore(investments[i], u, fp, ra)]]
             sorted == sortRecommendations(scored)
         IN  [i \in 1..Len(sorted) |-> sorted[i].inv]

\* generateRecommendations for amounts that do not fit 1 / AmountDen taka in
\* 32 bits: for an availableAmount that is a whole number of thousands,
\* (availableAmount * percentage) / 100 is the whole number
\* (availableAmount / 1000) * (percentage in tenths), and the amounts are kept
\* in whole taka.
calculateRecommendedAmountInTaka(investment, availableAmount, alloc) ==
    LET percentage ==
            CASE investment.category = "government" ->
                     OrDefault(alloc.government, 20 * PctDen)
              [] investment.category = "bank" ->
                     OrDefault(alloc.bank, 20 * PctDen)
              [] investment.category \in {"stock", "mutual_fund"} ->
                     OrDefault(alloc.stocks, 30 * PctDen)
              [] OTHER -> 10 * PctDen
        recommendedAmount == (availableAmount \div 1000) * percentage
    IN  Max(recommendedAmount, investment.minInvestment)

recommendationForInTaka(investment, u, fp, ra, availableAmount, alloc) ==
    LET suitabilityScore == calculateSuitabilityScore(investment, u, fp, ra)
        recommendedAmount ==
            calculateRecommendedAmountInTaka(investment, availableAmount, alloc)
    IN  IF suitabilityScore >= MinSuitability
           /\ recommendedAmount >= investment.minInvestment
        THEN << [investmentType |-> investment.type,
                 recommendedAmount |-> recommendedAmount,
                 expectedReturn |-> investment.expectedReturn,
                 riskLevel |-> investment.riskLevel,
                 reasoning |-> generateReasoning(investment, u, suitabilityScore),
                 suitabilityScore |-> suitabilityScore] >>
        ELSE <<>>

RECURSIVE collectRecommendationsInTaka(_, _, _, _, _, _)
collectRecommendationsInTaka(investments, u, fp, ra, availableAmount, alloc) ==
    IF investments = <<>> THEN <<>>
    ELSE recommendationForInTaka(Head(investments), u, fp, ra,
                                 availableAmount, alloc)
         \o collectRecommendationsInTaka(Tail(investments), u, fp, ra,
                                         availableAmount, alloc)

generateRecommendationsInTaka(investments, u, fp, ra) ==
    LET availableAmount == fp.monthlyIncome - fp.monthlyExpenses
        suitableInvestments == filterByRiskTolerance(investments, ra.tolerance)
        alloc == calculateAssetAllocation(u.age, ra.tolerance)
    IN  sortRecommendations(
            newRecommendations
            \o collectRecommendationsInTaka(suitableInvestments, u, fp, ra,
                                            availableAmount, alloc))

\* The catalog array after generateRecommendations has returned.  filter()
\* builds a new array and the default case of filterByRiskTolerance hands
\* back the catalog array itself, but the array is only iterated; sort()
\* is called on `recommendations`, the array made in this call.
catalogAfterGenerate(investments, u, fp, ra) == investments

----------------------------------------------------------------------------
(* Exact rationals [n, d] in lowest terms, d > 0 *)

RECURSIVE Gcd(_, _)
Gcd(a, b) == IF b = 0 THEN a ELSE Gcd(b, a % b)

Rat(n, d) ==
    LET g == Gcd(Abs(n), d)
    IN  [n |-> n \div g, d |-> d \div g]

RatInt(k) == [n |-> k, d |-> 1]

\* The sum over the least common denominator
RatAdd(x, y) ==
    LET l == (x.d \div Gcd(x.d, y.d)) * y.d
    IN  Rat(x.n * (l \div x.d) + y.n * (l \div y.d), l)

RatSub(x, y) == Rat(x.n * y.d - y.n * x.d, x.d * y.d)

RatMul(x, y) == Rat(x.n * y.n, x.d * y.d)

\* Math.round: the nearest integer, a half rounding towards +Infinity,
\* that is floor(x + 1/2)
MathRound(x) == RatInt((2 * x.n + x.d) \div (2 * x.d))

----------------------------------------------------------------------------
(* calculateProjection *)

\* The for loop from `year` on, with the values of the loop's variables
RECURSIVE projectionLoop(_, _, _, _, _, _, _)
projectionLoop(year, years, annualReturn, monthly, totalInvestment, currentValue, yearlyBreakdown) ==
    IF year <= years
    THEN LET yearlyContribution == RatMul(monthly, RatInt(12))
             investment == RatAdd(totalInvestment, yearlyContribution)
             value == RatMul(RatAdd(currentValue, yearlyContribution),
                             RatAdd(RatInt(1), RatMul(annualReturn, Rat(1, 100))))
         IN  projectionLoop(year + 1, years, annualReturn, monthly,
                            investment, value,
                            Append(yearlyBreakdown,
                                   [year |-> year,
                                    investment |-> investment,
                                    value |-> MathRound(value),
                                    return |-> MathRound(RatSub(value, investment))]))
    ELSE [futureValue |-> MathRound(currentValue),
          totalInvestment |-> totalInvestment,
          totalReturn |-> MathRound(RatSub(currentValue, totalInvestment)),
          yearlyBreakdown |-> yearlyBreakdown]

\* Mutant: the loop stops one year early (year < years)
calculateProjectionOneShort(amount, annualReturn, years, monthlyContribution) ==
    projectionLoop(1, years - 1, annualReturn, monthlyContribution,
                   amount, amount, <<>>)

calculateProjection(amount, annualReturn, years, monthlyContribution) ==
    projectionLoop(1, years, annualReturn, monthlyContribution,
                   amount, amount, <<>>)

----------------------------------------------------------------------------
(* getInvestmentDetails, getAllInvestments, calculateOptimalPortfolio *)

\* bangladeshInvestments.find(inv => inv.type === type) || null, null
\* being <<>>
RECURSIVE getInvestmentDetails(_, _)
getInvestmentDetails(investments, type) ==
    IF investments = <<>> THEN <<>>
    ELSE IF Head(investments).type = type
         THEN <<Head(investments)>>
         ELSE getInvestmentDetails(Tail(investments), type)

\* The array returned is the catalog array itself
getAllInvestments(investments) == investments

\* Doubles of calculateOptimalPortfolio: a finite value (kept as an exact
\* rational), an infinity or NaN
Finite(x) == [kind |-> "finite", value |-> x]

NotFinite(k) == [kind |-> k, value |-> RatInt(0)]

\* rec.recommendedAmount / targetAmount, the amount in 1 / AmountDen taka
weightOf(amount, targetAmount) ==
    IF targetAmount # 0
    THEN Finite(Rat(IF targetAmount > 0 THEN amount ELSE -amount,
                    Abs(targetAmount) * AmountDen))
    ELSE IF amount = 0 THEN NotFinite("NaN")
    ELSE IF amount > 0 THEN NotFinite("+Infinity")
    ELSE NotFinite("-Infinity")

NumAdd(x, y) ==
    CASE x.kind = "finite" /\ y.kind = "finite" ->
             Finite(RatAdd(x.value, y.value))
      [] x.kind = "NaN" \/ y.kind = "NaN" -> NotFinite("NaN")
      [] x.kind = "finite" -> y
      [] y.kind = "finite" -> x
      [] x.kind = y.kind -> x
      [] OTHER -> NotFinite("NaN")

\* r * x for the integer r
NumScale(r, x) ==
    CASE x.kind = "finite" -> Finite(RatMul(RatInt(r), x.value))
      [] x.kind = "NaN" \/ r = 0 -> NotFinite("NaN")
      [] r > 0 -> x
      [] OTHER -> NotFinite(IF x.kind = "+Infinity" THEN "-Infinity"
                                                   ELSE "+Infinity")

\* x > 0; false for NaN
NumPositive(x) ==
    CASE x.kind = "finite" -> x.value.n > 0
      [] x.kind = "+Infinity" -> TRUE
      [] OTHER -> FALSE

\* x / y for y > 0
NumDiv(x, y) ==
    CASE x.kind = "finite" /\ y.kind = "finite" ->
             LET l == (x.value.d \div Gcd(x.value.d, y.value.d)) * y.value.d
             IN  Finite(Rat(x.value.n * (l \div x.value.d),
                            y.value.n * (l \div y.value.d)))
      [] x.kind = "finite" -> Finite(RatInt(0))
      [] y.kind = "finite" -> x
      [] OTHER -> NotFinite("NaN")

\* The forEach of calculateOptimalPortfolio from its first element on
RECURSIVE weighRecommendations(_, _, _, _)
weighRecommendations(recs, targetAmount, totalWeight, weightedReturn) ==
    IF recs = <<>>
    THEN [totalWeight |-> totalWeight, weightedReturn |-> weightedReturn]
    ELSE LET weight == weightOf(Head(recs).recommendedAmount, targetAmount)
         IN  weighRecommendations(
                 Tail(recs), targetAmount,
                 NumAdd(totalWeight, weight),
                 NumAdd(weightedReturn,
                        NumScale(Head(recs).expectedReturn, weight)))

\* projectedReturn is in tenths of a percent, as expectedReturn is
calculateOptimalPortfolio(investments, u, fp, ra, targetAmount) ==
    LET recs == generateRecommendations(investments, u, fp, ra)
        alloc == calculateAssetAllocation(u.age, ra.tolerance)
        sums == weighRecommendations(recs, targetAmount,
                                     Finite(RatInt(0)), Finite(RatInt(0)))
    IN  [allocation |-> alloc,
         recommendations |-> recs,
         projectedReturn |->
             IF NumPositive(sums.totalWeight)
             THEN NumDiv(sums.weightedReturn, sums.totalWeight)
             ELSE Finite(RatInt(0))]

----------------------------------------------------------------------------
(* RiskAssessmentScreen *)

Option(v, sc) == [value |-> v, score |-> sc]

\* Mutant: the last option of q8 is scored 5
riskQuestionsMisScored ==
    << [id |-> "q1",
        options |-> << Option("under25", 4), Option("25to35", 3),
                       Option("35to50", 2), Option("over50", 1) >>],
       [id |-> "q2",
        options |-> << Option("none", 1), Option("limited", 2),
                       Option("moderate", 3), Option("extensive", 4) >>],
       [id |-> "q3",
        options |-> << Option("capital_preservation", 1),
                       Option("income_generation", 2),
                       Option("balanced_growth", 3),
                       Option("aggressive_growth", 4) >>],
       [id |-> "q4",
        options |-> << Option("short", 1), Option("medium_short", 2),
                       Option("medium_long", 3), Option("long", 4) >>],
       [id |-> "q5",
        options |-> << Option("sell_immediately", 1), Option("sell_some", 2),
                       Option("hold", 3), Option("buy_more", 4) >>],
       [id |-> "q6",
        options |-> << Option("very_low", 1), Option("low", 2),
                       Option("moderate", 3), Option("high", 4) >>],
       [id |-> "q7",
        options |-> << Option("none", 1), Option("partial", 2),
                       Option("adequate", 3), Option("excellent", 4) >>],
       [id |-> "q8",
        options |-> << Option("very_conservative", 1), Option("conservative", 2),
                       Option("moderate", 3), Option("aggressive", 5) >>] >>

riskQuestions ==
    << [id |-> "q1",
        options |-> << Option("under25", 4), Option("25to35", 3),
                       Option("35to50", 2), Option("over50", 1) >>],
       [id |-> "q2",
        options |-> << Option("none", 1), Option("limited", 2),
                       Option("moderate", 3), Option("extensive", 4) >>],
       [id |-> "q3",
        options |-> << Option("capital_preservation", 1),
                       Option("income_generation", 2),
                       Option("balanced_growth", 3),
                       Option("aggressive_growth", 4) >>],
       [id |-> "q4",
        options |-> << Option("short", 1), Option("medium_short", 2),
                       Option("medium_long", 3), Option("long", 4) >>],
       [id |-> "q5",
        options |-> << Option("sell_immediately", 1), Option("sell_some", 2),
                       Option("hold", 3), Option("buy_more", 4) >>],
       [id |-> "q6",
        options |-> << Option("very_low", 1), Option("low", 2),
                       Option("moderate", 3), Option("high", 4) >>],
       [id |-> "q7",
        options |-> << Option("none", 1), Option("partial", 2),
                       Option("adequate", 3), Option("excellent", 4) >>],
       [id |-> "q8",
        options |-> << Option("very_conservative", 1), Option("conservative", 2),
                       Option("moderate", 3), Option("aggressive", 4) >>] >>

QuestionIds == {riskQuestions[i].id : i \in 1..Len(riskQuestions)}

OptionValues(question) ==
    {question.options[j].value : j \in 1..Len(question.options)}

\* The value of answers[id] for a key never set
Undefined == "undefined"

\* question.options.find(opt => opt.value === selectedAnswer): <<>> or <<opt>>
RECURSIVE findOption(_, _)
findOption(options, selectedAnswer) ==
    IF options = <<>> THEN <<>>
    ELSE IF Head(options).value = selectedAnswer THEN <<Head(options)>>
    ELSE findOption(Tail(options), selectedAnswer)

\* The riskQuestions.forEach of calculateRiskScore: the answer records
\* pushed for the questions from index i on
RECURSIVE assessmentAnswers(_, _, _)
assessmentAnswers(questions, ans, i) ==
    IF i > Len(questions) THEN <<>>
    ELSE LET question == questions[i]
             selectedAnswer == ans[question.id]
             option == IF selectedAnswer # Undefined
                       THEN findOption(question.options, selectedAnswer)
                       ELSE <<>>
         IN  (IF option # <<>>
              THEN << [questionId |-> question.id,
                       answer |-> selectedAnswer,
                       score |-> option[1].score] >>
              ELSE <<>>)
             \o assessmentAnswers(questions, ans, i + 1)

\* totalScore: option.score is added exactly when a record is pushed
RECURSIVE sumScores(_)
sumScores(records) ==
    IF records = <<>> THEN 0
    ELSE Head(records).score + sumScores(Tail(records))

\* The highest score of an option (maxScore = riskQuestions.length * 4)
MaxOptionScore == 4

\* Mutant: the maximum counts the answered questions only
maxScoreOfAnswered(questions) ==
    Cardinality({i \in 1..Len(questions) : answers[questions[i].id] # Undefined})
        * MaxOptionScore

maxScoreOf(questions) == Len(questions) * MaxOptionScore

\* Mutant: the second comparison is turned around
riskToleranceOfSwapped(totalScore, maxScore) ==
    IF totalScore * 100 <= 40 * maxScore THEN "conservative"
    ELSE IF totalScore * 100 >= 70 * maxScore THEN "moderate"
    ELSE "aggressive"

\* Mutant: the conservative tier ends at 50 percent
riskToleranceOfHalf(totalScore, maxScore) ==
    IF totalScore * 100 <= 50 * maxScore THEN "conservative"
    ELSE IF totalScore * 100 <= 70 * maxScore THEN "moderate"
    ELSE "aggressive"

\* scorePercentage = (totalScore / maxScore) * 100 compared with 40 and 70;
\* the quotient by 32 and the product by 100 are exact on doubles.
riskToleranceOf(totalScore, maxScore) ==
    IF totalScore * 100 <= 40 * maxScore THEN "conservative"
    ELSE IF totalScore * 100 <= 70 * maxScore THEN "moderate"
    ELSE "aggressive"

calculateRiskScore(questions, ans) ==
    LET records == assessmentAnswers(questions, ans, 1)
        totalScore == sumScores(records)
    IN  [score |-> totalScore,
         tolerance |-> riskToleranceOf(totalScore, maxScoreOf(questions)),
         answers |-> records]

currentQ == riskQuestions[currentQuestion + 1]

isAnswered == answers[currentQ.id] # Undefined

\* Mutant: the Next button is never disabled
nextAlwaysEnabled == TRUE

\* The Next button is rendered with disabled={!isAnswered}
nextEnabled == isAnswered

\* A tap on an option of the question shown
HandleAnswer ==
    /\ screen = "open"
    /\ \E answer \in OptionValues(currentQ) :
           answers' = [answers EXCEPT ![currentQ.id] = answer]
    /\ UNCHANGED <<currentQuestion, assessment, screen>>
    /\ UNCHANGED recVars
    /\ UNCHANGED projVars
    /\ UNCHANGED storeVars

\* A press of the Next button: the next question, or, on the last question,
\* calculateRiskScore, setRiskAssessment and the result Alert of showResults
HandleNext ==
    /\ screen = "open"
    /\ nextEnabled
    /\ IF currentQuestion < Len(riskQuestions) - 1
       THEN /\ currentQuestion' = currentQuestion + 1
            /\ UNCHANGED <<assessment, screen>>
       ELSE /\ assessment' = <<calculateRiskScore(riskQuestions, answers)>>
            /\ screen' = "alert"
            /\ UNCHANGED currentQuestion
    /\ UNCHANGED answers
    /\ UNCHANGED recVars
    /\ UNCHANGED projVars
    /\ UNCHANGED storeVars

\* A press of the Previous button, rendered when currentQuestion > 0
HandlePrevious ==
    /\ screen = "open"
    /\ currentQuestion > 0
    /\ currentQuestion' = currentQuestion - 1
    /\ UNCHANGED <<answers, assessment, screen>>
    /\ UNCHANGED recVars
    /\ UNCHANGED projVars
    /\ UNCHANGED storeVars

\* The Alert's button: navigation.goBack() leaves the screen
DismissAlert ==
    /\ screen = "alert"
    /\ screen' = "closed"
    /\ UNCHANGED <<currentQuestion, answers, assessment>>
    /\ UNCHANGED recVars
    /\ UNCHANGED projVars
    /\ UNCHANGED storeVars

----------------------------------------------------------------------------
(* SpecRec: one user context is drawn, generateRecommendations is called *)

Ages == MinAge..MaxAge

Incomes == {k * IncomeUnit : k \in 0..MaxIncomeUnits}

Expenses == {k * ExpenseUnit : k \in 0..MaxExpenseUnits}

Savings == {0, SavingsUnit}

----------------------------------------------------------------------------
(* The zustand stores.  An optional value (string | null, Portfolio | null) *)
(* is <<>> for null and <<x>> otherwise.                                    *)

\* { ...object, ...updates }
spread(object, updates) ==
    [k \in DOMAIN object \cup DOMAIN updates |->
        IF k \in DOMAIN updates THEN updates[k] ELSE object[k]]

\* set(partial) of zustand: the partial state is merged into the state
set(state, partial) == spread(state, partial)

\* useAuthStore: the initial state
initialAuthState ==
    [isAuthenticated |-> FALSE,
     hasCompletedOnboarding |-> FALSE,
     token |-> <<>>,
     refreshToken |-> <<>>,
     isLoading |-> FALSE,
     error |-> <<>>]

\* useUserStore: initialState
initialState ==
    [user |-> <<>>,
     financialProfile |-> <<>>,
     portfolio |-> <<>>,
     goals |-> <<>>,
     riskAssessment |-> <<>>,
     recommendations |-> <<>>,
     isLoading |-> FALSE,
     error |-> <<>>]

StoresIdle ==
    /\ now = 0
    /\ authStore = initialAuthState
    /\ authPending = <<>>
    /\ authThrown = <<>>
    /\ userStore = initialState
    /\ userStoreCall = <<>>

RiskIdle ==
    /\ currentQuestion = 0
    /\ answers = [id \in QuestionIds |-> Undefined]
    /\ assessment = <<>>
    /\ screen = "open"

ProjIdle ==
    /\ projArgs = [amount |-> [n |-> 0, d |-> 1],
                   annualReturn |-> [n |-> 0, d |-> 1],
                   years |-> 0,
                   monthlyContribution |-> [n |-> 0, d |-> 1]]
    /\ projection = <<>>
    /\ prevProjection = <<>>

RecIdle ==
    /\ bangladeshInvestments = Catalog
    /\ user = [age |-> MinAge]
    /\ financialProfile = [monthlyIncome |-> 0, monthlyExpenses |-> 0,
                           currentSavings |-> 0, dependents |-> 0]
    /\ riskAssessment = [tolerance |-> "conservative"]
    /\ allocation = <<>>
    /\ recommendations = <<>>
    /\ recCalled = FALSE
    /\ serviceResult = <<>>

InitRec ==
    /\ bangladeshInvestments = Catalog
    /\ user \in [age : Ages]
    /\ financialProfile \in [monthlyIncome : Incomes, monthlyExpenses : Expenses,
                             currentSavings : Savings,
                             dependents : 0..MaxDependents]
    /\ riskAssessment \in [tolerance : RiskTolerances]
    /\ allocation = <<>>
    /\ recommendations = <<>>
    /\ recCalled = FALSE
    /\ serviceResult = <<>>
    /\ RiskIdle
    /\ ProjIdle
    /\ StoresIdle

GenerateRecommendations ==
    /\ ~recCalled
    /\ recommendations' = generateRecommendations(bangladeshInvestments, user,
                                                  financialProfile, riskAssessment)
    /\ allocation' = <<calculateAssetAllocation(user.age, riskAssessment.tolerance)>>
    /\ recCalled' = TRUE
    /\ bangladeshInvestments' = catalogAfterGenerate(bangladeshInvestments, user,
                                                    financialProfile, riskAssessment)
    /\ UNCHANGED <<user, financialProfile, riskAssessment, serviceResult>>
    /\ UNCHANGED riskVars
    /\ UNCHANGED projVars
    /\ UNCHANGED storeVars

NextRec == GenerateRecommendations

SpecRec == InitRec /\ [][NextRec]_vars

----------------------------------------------------------------------------
(* SpecLarge: generateRecommendations is called for a user of any age and  *)
(* tolerance with a monthly income of millions of taka; the recommended    *)
(* amounts are in whole taka.                                              *)

\* monthlyIncome is drawn from whole millions, monthlyExpenses from zero and
\* half a million
MaxIncomeMillions == 9

LargeIncomes == {k * 1000000 : k \in 0..MaxIncomeMillions}

LargeExpenses == {0, 500000}

InitLarge ==
    /\ bangladeshInvestments = Catalog
    /\ user \in [age : Ages]
    /\ financialProfile \in [monthlyIncome : LargeIncomes,
                             monthlyExpenses : LargeExpenses,
                             currentSavings : {0},
                             dependents : {0}]
    /\ riskAssessment \in [tolerance : RiskTolerances]
    /\ allocation = <<>>
    /\ recommendations = <<>>
    /\ recCalled = FALSE
    /\ serviceResult = <<>>
    /\ RiskIdle
    /\ ProjIdle
    /\ StoresIdle

GenerateForLargeIncome ==
    /\ ~recCalled
    /\ recommendations' =
           generateRecommendationsInTaka(bangladeshInvestments, user,
                                         financialProfile, riskAssessment)
    /\ allocation' = <<calculateAssetAllocation(user.age, riskAssessment.tolerance)>>
    /\ recCalled' = TRUE
    /\ bangladeshInvestments' = catalogAfterGenerate(bangladeshInvestments, user,
                                                    financialProfile, riskAssessment)
    /\ UNCHANGED <<user, financialProfile, riskAssessment, serviceResult>>
    /\ UNCHANGED riskVars
    /\ UNCHANGED projVars
    /\ UNCHANGED storeVars

NextLarge == GenerateForLargeIncome

SpecLarge == InitLarge /\ [][NextLarge]_vars


----------------------------------------------------------------------------
(* SpecRisk: the questionnaire screen from its first render *)

InitRisk ==
    /\ RiskIdle
    /\ RecIdle
    /\ ProjIdle
    /\ StoresIdle

NextRisk ==
    \/ HandleAnswer
    \/ HandleNext
    \/ HandlePrevious
    \/ DismissAlert

SpecRisk == InitRisk /\ [][NextRisk]_vars

(* SpecScore: calculateRiskScore on every complete answer set.  The screen *)
(* is on its last question with an option chosen for each question, and    *)
(* the Next button is pressed.                                             *)

OptionCounts == {Len(riskQuestions[i].options) : i \in 1..Len(riskQuestions)}

MaxOptionCount == CHOOSE n \in OptionCounts : \A m \in OptionCounts : m <= n

QuestionIndex(id) == CHOOSE i \in 1..Len(riskQuestions) : riskQuestions[i].id = id

\* The answer sets that select the c[i]-th option of question i
CompleteAnswers ==
    {[id \in QuestionIds |->
          riskQuestions[QuestionIndex(id)].options[c[QuestionIndex(id)]].value] :
        c \in {d \in [1..Len(riskQuestions) -> 1..MaxOptionCount] :
                  \A i \in 1..Len(riskQuestions) :
                      d[i] <= Len(riskQuestions[i].options)}}

InitScore ==
    /\ currentQuestion = Len(riskQuestions) - 1
    /\ answers \in CompleteAnswers
    /\ assessment = <<>>
    /\ screen = "open"
    /\ RecIdle
    /\ ProjIdle
    /\ StoresIdle

NextScore ==
    \/ HandleNext
    \/ DismissAlert

SpecScore == InitScore /\ [][NextScore]_vars

(* SpecPartial: calculateRiskScore invoked on any answer set, complete or *)
(* not: each question has one of its options selected or none.            *)

QuestionIndexOf == [id \in QuestionIds |-> QuestionIndex(id)]

\* The answer sets that leave question i unanswered (c[i] = 0) or select its
\* first or its last option
PartialAnswers(questions) ==
    {[id \in QuestionIds |->
          LET i == QuestionIndexOf[id]
          IN  IF c[i] = 0 THEN Undefined ELSE questions[i].options[c[i]].value] :
        c \in [1..Len(questions) -> {0, 1, MaxOptionCount}]}

InitPartial ==
    /\ currentQuestion = Len(riskQuestions) - 1
    /\ answers \in PartialAnswers(riskQuestions)
    /\ assessment = <<>>
    /\ screen = "open"
    /\ RecIdle
    /\ ProjIdle
    /\ StoresIdle

\* calculateRiskScore with setRiskAssessment and the Alert of showResults
CalculateRiskScore ==
    /\ screen = "open"
    /\ assessment' = <<calculateRiskScore(riskQuestions, answers)>>
    /\ screen' = "alert"
    /\ UNCHANGED <<currentQuestion, answers>>
    /\ UNCHANGED recVars
    /\ UNCHANGED projVars
    /\ UNCHANGED storeVars

NextPartial == CalculateRiskScore

SpecPartial == InitPartial /\ [][NextPartial]_vars

----------------------------------------------------------------------------
(* SpecProj: calculateProjection is called, twice, on drawn arguments.  The *)
(* detail screen passes parseInt of the typed period, so a negative number *)
(* of years reaches the function.                                          *)

\* annualReturn is drawn from -25%, 0%, 25%, ...: multiples of a quarter, for
\* which annualReturn / 100 and every product of the loop are exact doubles.
Rates == {RatInt(25 * k) : k \in -1..MaxRateSteps}

\* The scenario of the specification, project(100000, 8.5, years, 0), for the
\* numbers of years whose values fit 32-bit numerators; the doubles of the
\* code round to the same integers in these years.
ScenarioArgs ==
    [amount : {RatInt(100000)}, annualReturn : {Rat(17, 2)}, years : {1, 2, 3},
     monthlyContribution : {RatInt(0)}]

InitProj ==
    /\ projArgs \in [amount : {Rat(k, 2) : k \in 0..MaxAmountHalves},
                     annualReturn : Rates,
                     years : -1..MaxYears,
                     monthlyContribution :
                         {Rat(k, 2) : k \in 0..MaxMonthlyHalves}]
                    \cup ScenarioArgs
    /\ projection = <<>>
    /\ prevProjection = <<>>
    /\ RecIdle
    /\ RiskIdle
    /\ StoresIdle

CalculateProjection ==
    /\ projection' = <<calculateProjection(projArgs.amount, projArgs.annualReturn,
                                           projArgs.years,
                                           projArgs.monthlyContribution)>>
    /\ prevProjection' = projection
    /\ UNCHANGED projArgs
    /\ UNCHANGED recVars
    /\ UNCHANGED riskVars
    /\ UNCHANGED storeVars

NextProj == CalculateProjection

SpecProj == InitProj /\ [][NextProj]_vars

----------------------------------------------------------------------------
(* SpecService: callers use the service for several users, one call after  *)
(* the other in any order (every method is synchronous).                   *)

InvestmentTypes ==
    {"sanchayapatra", "dps", "mutual_fund", "stock", "fixed_deposit", "bond",
     "other"}

\* The user contexts of the callers
ServiceUsers == {[age |-> MinAge], [age |-> MaxAge]}

ServiceProfiles ==
    {[monthlyIncome |-> 100000, monthlyExpenses |-> 30000,
      currentSavings |-> 200000, dependents |-> 0],
     [monthlyIncome |-> 25000, monthlyExpenses |-> 30000,
      currentSavings |-> 0, dependents |-> 3]}

TargetAmounts == {-100000, 0, 100000}

InitService ==
    /\ bangladeshInvestments = Catalog
    /\ user \in ServiceUsers
    /\ financialProfile \in ServiceProfiles
    /\ riskAssessment \in [tolerance : RiskTolerances]
    /\ allocation = <<>>
    /\ recommendations = <<>>
    /\ recCalled = FALSE
    /\ serviceResult = <<>>
    /\ projArgs \in [amount : {Rat(MaxAmountHalves, 2)},
                     annualReturn : {RatInt(25)},
                     years : {MaxYears},
                     monthlyContribution : {RatInt(1)}]
    /\ projection = <<>>
    /\ prevProjection = <<>>
    /\ RiskIdle
    /\ StoresIdle

\* A caller prepares the next request: for another user context, or for
\* the same one again
NewRequest ==
    /\ user' \in ServiceUsers
    /\ financialProfile' \in ServiceProfiles
    /\ riskAssessment' \in [tolerance : RiskTolerances]
    /\ recCalled' = FALSE
    /\ UNCHANGED <<bangladeshInvestments, allocation, recommendations,
                   serviceResult>>
    /\ UNCHANGED riskVars
    /\ UNCHANGED projVars
    /\ UNCHANGED storeVars

GetInvestmentDetails ==
    /\ \E type \in InvestmentTypes :
           serviceResult' =
               <<[op |-> "getInvestmentDetails",
                  value |-> getInvestmentDetails(bangladeshInvestments, type)]>>
    /\ UNCHANGED <<bangladeshInvestments, user, financialProfile,
                   riskAssessment, allocation, recommendations, recCalled>>
    /\ UNCHANGED riskVars
    /\ UNCHANGED projVars
    /\ UNCHANGED storeVars

GetAllInvestments ==
    /\ serviceResult' =
           <<[op |-> "getAllInvestments",
              value |-> getAllInvestments(bangladeshInvestments)]>>
    /\ UNCHANGED <<bangladeshInvestments, user, financialProfile,
                   riskAssessment, allocation, recommendations, recCalled>>
    /\ UNCHANGED riskVars
    /\ UNCHANGED projVars
    /\ UNCHANGED storeVars

CalculateOptimalPortfolio ==
    /\ \E targetAmount \in TargetAmounts :
           serviceResult' =
               <<[op |-> "calculateOptimalPortfolio",
                  value |-> calculateOptimalPortfolio(
                                bangladeshInvestments, user, financialProfile,
                                riskAssessment, targetAmount)]>>
    /\ bangladeshInvestments' = catalogAfterGenerate(bangladeshInvestments, user,
                                                    financialProfile, riskAssessment)
    /\ UNCHANGED <<user, financialProfile, riskAssessment, allocation,
                   recommendations, recCalled>>
    /\ UNCHANGED riskVars
    /\ UNCHANGED projVars
    /\ UNCHANGED storeVars

NextService ==
    \/ NewRequest
    \/ GenerateRecommendations
    \/ CalculateOptimalPortfolio
    \/ GetInvestmentDetails
    \/ GetAllInvestments
    \/ CalculateProjection

SpecService == InitService /\ [][NextService]_vars

----------------------------------------------------------------------------
(* SpecAuth: useAuthStore.  JavaScript runs one callback at a time, so an  *)
(* async action is two steps: the part before its await, which starts a    *)
(* timer, and the part after it, run when the timer has expired.  Any      *)
(* other action can run in between.  The persist middleware, which only    *)
(* copies the state to AsyncStorage, is left out.                          *)

\* The setTimeout delays of login, register and refreshAuthToken
LoginDelay == 1500

RegisterDelay == 2000

RefreshDelay == 1000

Delays == {LoginDelay, RegisterDelay, RefreshDelay}

\* The clock runs up to MaxNow milliseconds; at most MaxPending timers are
\* pending at a time
MaxNow == 3000

MaxPending == 2

\* LoginForm: only the emptiness of email and password is read
LoginForms == [email : {"", "a@b.c"}, password : {"", "secret"}]

\* RegisterForm: only password and confirmPassword are read
RegisterForms == [password : {"p", "q"}, confirmPassword : {"p", "q"}]

\* prefix + Date.now()
TokenAt(prefix, time) == [prefix |-> prefix, at |-> time]

\* The sequence s without its i-th element
RemoveAt(s, i) == SubSeq(s, 1, i - 1) \o SubSeq(s, i + 1, Len(s))

OnlyAuthChanges ==
    /\ UNCHANGED <<userStore, userStoreCall>>
    /\ UNCHANGED recVars
    /\ UNCHANGED riskVars
    /\ UNCHANGED projVars

\* Time passes, but not beyond the expiry of a pending timer: a timer that
\* has expired runs before any later time is seen.
Tick ==
    /\ \E t \in {authPending[i].due : i \in 1..Len(authPending)}
                \cup {now + d : d \in Delays} :
           /\ t > now
           /\ t <= MaxNow
           /\ \A i \in 1..Len(authPending) : authPending[i].due >= t
           /\ now' = t
    /\ UNCHANGED <<authStore, authPending, authThrown>>
    /\ OnlyAuthChanges

\* login, up to its await
Login(credentials) ==
    /\ Len(authPending) < MaxPending
    /\ authStore' = set(authStore, [isLoading |-> TRUE, error |-> <<>>])
    /\ authPending' = Append(authPending,
                             [op |-> "login", credentials |-> credentials,
                              due |-> now + LoginDelay])
    /\ UNCHANGED <<now, authThrown>>
    /\ OnlyAuthChanges

\* login, after its await
LoginResume ==
    /\ \E i \in 1..Len(authPending) :
           /\ authPending[i].op = "login"
           /\ authPending[i].due <= now
           /\ authPending' = RemoveAt(authPending, i)
           /\ IF authPending[i].credentials.email # ""
                 /\ authPending[i].credentials.password # ""
              THEN /\ authStore' =
                          set(authStore,
                              [isAuthenticated |-> TRUE,
                               token |-> <<TokenAt("mock_jwt_token_", now)>>,
                               refreshToken |->
                                   <<TokenAt("mock_refresh_token_", now)>>,
                               isLoading |-> FALSE,
                               error |-> <<>>])
                   /\ authThrown' = <<>>
              ELSE /\ authStore' = set(authStore,
                                       [isLoading |-> FALSE,
                                        error |-> <<"Invalid credentials">>])
                   /\ authThrown' = <<"Invalid credentials">>
    /\ UNCHANGED now
    /\ OnlyAuthChanges

\* register, up to its await, or to its end when the passwords differ
Register(userData) ==
    /\ Len(authPending) < MaxPending
    /\ IF userData.password # userData.confirmPassword
       THEN /\ authStore' =
                   set(set(authStore, [isLoading |-> TRUE, error |-> <<>>]),
                       [isLoading |-> FALSE,
                        error |-> <<"Passwords do not match">>])
            /\ authThrown' = <<"Passwords do not match">>
            /\ UNCHANGED authPending
       ELSE /\ authStore' = set(authStore, [isLoading |-> TRUE, error |-> <<>>])
            /\ authPending' = Append(authPending,
                                     [op |-> "register", userData |-> userData,
                                      due |-> now + RegisterDelay])
            /\ UNCHANGED authThrown
    /\ UNCHANGED now
    /\ OnlyAuthChanges

\* register, after its await
RegisterResume ==
    /\ \E i \in 1..Len(authPending) :
           /\ authPending[i].op = "register"
           /\ authPending[i].due <= now
           /\ authPending' = RemoveAt(authPending, i)
    /\ authStore' = set(authStore,
                        [isAuthenticated |-> TRUE,
                         token |-> <<TokenAt("mock_jwt_token_", now)>>,
                         refreshToken |-> <<TokenAt("mock_refresh_token_", now)>>,
                         isLoading |-> FALSE,
                         error |-> <<>>])
    /\ authThrown' = <<>>
    /\ UNCHANGED now
    /\ OnlyAuthChanges

logout(state) ==
    set(state, [isAuthenticated |-> FALSE, token |-> <<>>,
                refreshToken |-> <<>>, error |-> <<>>])

Logout ==
    /\ authStore' = logout(authStore)
    /\ UNCHANGED <<now, authPending, authThrown>>
    /\ OnlyAuthChanges

ClearError ==
    /\ authStore' = set(authStore, [error |-> <<>>])
    /\ UNCHANGED <<now, authPending, authThrown>>
    /\ OnlyAuthChanges

SetOnboardingCompleted ==
    /\ authStore' = set(authStore, [hasCompletedOnboarding |-> TRUE])
    /\ UNCHANGED <<now, authPending, authThrown>>
    /\ OnlyAuthChanges

\* refreshAuthToken, up to its await, or to its throw without a refresh
\* token
RefreshAuthToken ==
    /\ Len(authPending) < MaxPending
    /\ IF authStore.refreshToken = <<>>
       THEN /\ authThrown' = <<"No refresh token available">>
            /\ UNCHANGED authPending
       ELSE /\ authPending' = Append(authPending,
                                     [op |-> "refreshAuthToken",
                                      due |-> now + RefreshDelay])
            /\ UNCHANGED authThrown
    /\ UNCHANGED <<now, authStore>>
    /\ OnlyAuthChanges

\* refreshAuthToken, after its await.  Nothing in the try block throws (the
\* timer promise always resolves), so the catch block never runs.
RefreshResume ==
    /\ \E i \in 1..Len(authPending) :
           /\ authPending[i].op = "refreshAuthToken"
           /\ authPending[i].due <= now
           /\ authPending' = RemoveAt(authPending, i)
    /\ authStore' = set(authStore,
                        [token |-> <<TokenAt("refreshed_token_", now)>>,
                         error |-> <<>>])
    /\ authThrown' = <<>>
    /\ UNCHANGED now
    /\ OnlyAuthChanges

InitAuth ==
    /\ StoresIdle
    /\ RecIdle
    /\ RiskIdle
    /\ ProjIdle

NextAuth ==
    \/ Tick
    \/ \E credentials \in LoginForms : Login(credentials)
    \/ LoginResume
    \/ \E userData \in RegisterForms : Register(userData)
    \/ RegisterResume
    \/ Logout
    \/ ClearError
    \/ SetOnboardingCompleted
    \/ RefreshAuthToken
    \/ RefreshResume

SpecAuth == InitAuth /\ [][NextAuth]_vars

----------------------------------------------------------------------------
(* SpecStore: the portfolio of useUserStore.  Every action of the store    *)
(* that writes the portfolio is modelled; they are all synchronous, and    *)
(* the calls follow each other within one millisecond of the clock.        *)

MaxInvestments == 2

InvestmentIds == {"a", "b"}

\* Of an Investment only id, amount and currentValue are read
NewInvestments ==
    [id : InvestmentIds, amount : {1000, 2500}, currentValue : {900, 2500}]

\* Partial<Investment>: any subset of the fields
InvestmentUpdates ==
    {<<>>} \cup [amount : {4000}] \cup [currentValue : {4400}]
           \cup [amount : {4000}, currentValue : {4400}]

\* investments.reduce((sum, inv) => sum + inv[field], 0)
RECURSIVE reduceSum(_, _)
reduceSum(investments, field) ==
    IF investments = <<>> THEN 0
    ELSE reduceSum(SubSeq(investments, 1, Len(investments) - 1), field)
         + investments[Len(investments)][field]

\* The portfolios handed to updatePortfolio: none or one investment, with
\* totals that agree with it or are zero
Portfolios(time) ==
    {[id |-> "portfolio_1", investments |-> investments,
      totalInvestment |-> totalInvestment, totalValue |-> totalValue,
      lastUpdated |-> time] :
        <<investments, totalInvestment, totalValue>> \in
            {<<i, t, v>> \in ({<<>>} \cup {<<inv>> : inv \in NewInvestments})
                               \X {0, 1000, 2500} \X {0, 900, 2500} :
                /\ t \in {0, reduceSum(i, "amount")}
                /\ v \in {0, reduceSum(i, "currentValue")}}}

\* Mutant: the totals are kept up to date by adding the new investment
addInvestmentIncremental(state, investment, time) ==
    IF state.portfolio # <<>>
    THEN LET portfolio == state.portfolio[1]
             updatedInvestments == Append(portfolio.investments, investment)
             updatedPortfolio ==
                 spread(portfolio,
                        [investments |-> updatedInvestments,
                         totalInvestment |->
                             portfolio.totalInvestment + investment.amount,
                         totalValue |->
                             portfolio.totalValue + investment.currentValue,
                         lastUpdated |-> time])
         IN  set(state, [portfolio |-> <<updatedPortfolio>>])
    ELSE state

\* The store state after addInvestment(investment) at Date `time`
addInvestment(state, investment, time) ==
    IF state.portfolio # <<>>
    THEN LET portfolio == state.portfolio[1]
             updatedInvestments == Append(portfolio.investments, investment)
             updatedPortfolio ==
                 spread(portfolio,
                        [investments |-> updatedInvestments,
                         totalInvestment |->
                             reduceSum(updatedInvestments, "amount"),
                         totalValue |->
                             reduceSum(updatedInvestments, "currentValue"),
                         lastUpdated |-> time])
         IN  set(state, [portfolio |-> <<updatedPortfolio>>])
    ELSE state

\* The store state after updateInvestment(investmentId, updates)
updateInvestment(state, investmentId, updates, time) ==
    IF state.portfolio # <<>>
    THEN LET portfolio == state.portfolio[1]
             updatedInvestments ==
                 [i \in 1..Len(portfolio.investments) |->
                     IF portfolio.investments[i].id = investmentId
                     THEN spread(portfolio.investments[i], updates)
                     ELSE portfolio.investments[i]]
             updatedPortfolio ==
                 spread(portfolio,
                        [investments |-> updatedInvestments,
                         totalInvestment |->
                             reduceSum(updatedInvestments, "amount"),
                         totalValue |->
                             reduceSum(updatedInvestments, "currentValue"),
                         lastUpdated |-> time])
         IN  set(state, [portfolio |-> <<updatedPortfolio>>])
    ELSE state

OnlyUserStoreChanges ==
    /\ UNCHANGED <<now, authStore, authPending, authThrown>>
    /\ UNCHANGED recVars
    /\ UNCHANGED riskVars
    /\ UNCHANGED projVars

UpdatePortfolio(portfolio) ==
    /\ userStore' = set(userStore, [portfolio |-> <<portfolio>>])
    /\ userStoreCall' = <<[op |-> "updatePortfolio",
                          hadPortfolio |-> userStore.portfolio # <<>>]>>
    /\ OnlyUserStoreChanges

AddInvestment(investment) ==
    /\ userStore.portfolio # <<>> =>
           Len(userStore.portfolio[1].investments) < MaxInvestments
    /\ userStore' = addInvestment(userStore, investment, now)
    /\ userStoreCall' = <<[op |-> "addInvestment",
                          hadPortfolio |-> userStore.portfolio # <<>>]>>
    /\ OnlyUserStoreChanges

UpdateInvestment(investmentId, updates) ==
    /\ userStore' = updateInvestment(userStore, investmentId, updates, now)
    /\ userStoreCall' = <<[op |-> "updateInvestment",
                          hadPortfolio |-> userStore.portfolio # <<>>]>>
    /\ OnlyUserStoreChanges

ResetUserData ==
    /\ userStore' = set(userStore, initialState)
    /\ userStoreCall' = <<[op |-> "resetUserData",
                          hadPortfolio |-> userStore.portfolio # <<>>]>>
    /\ OnlyUserStoreChanges

InitStore ==
    /\ StoresIdle
    /\ RecIdle
    /\ RiskIdle
    /\ ProjIdle

NextStore ==
    \/ \E portfolio \in Portfolios(now) : UpdatePortfolio(portfolio)
    \/ \E investment \in NewInvestments : AddInvestment(investment)
    \/ \E investmentId \in InvestmentIds, updates \in InvestmentUpdates :
           UpdateInvestment(investmentId, updates)
    \/ ResetUserData

SpecStore == InitStore /\ [][NextStore]_vars

----------------------------------------------------------------------------
(* Properties of generateRecommendations, checked under SpecRec *)

RecIndexes == 1..Len(recommendations)

CatalogIndexes == 1..Len(bangladeshInvestments)

\* The catalog entry a recommendation was made from
InstrumentOf(rec) ==
    bangladeshInvestments[CHOOSE k \in CatalogIndexes :
                              bangladeshInvestments[k].type = rec.investmentType]

ScoreOf(inv) ==
    calculateSuitabilityScore(inv, user, financialProfile, riskAssessment)

\* C1: every recommendation returned by generateRecommendations has
\* suitabilityScore >= 60, and that score is the suitability score of its
\* instrument for the user context of the call.
C1_ScoreAtLeast60 ==
    recCalled =>
        \A i \in RecIndexes :
            /\ recommendations[i].suitabilityScore >= 60
            /\ recommendations[i].suitabilityScore
                   = ScoreOf(InstrumentOf(recommendations[i]))

\* A call that returned something and skipped a risk-permitted instrument
\* whose score is below 60.
C1_Witness ==
    /\ recCalled
    /\ recommendations # <<>>
    /\ \E i \in CatalogIndexes :
           /\ bangladeshInvestments[i] \in
                  {filterByRiskTolerance(bangladeshInvestments,
                                         riskAssessment.tolerance)[j] :
                       j \in 1..Len(filterByRiskTolerance(bangladeshInvestments,
                                                          riskAssessment.tolerance))}
           /\ ScoreOf(bangladeshInvestments[i]) < 60

PermittedLevels(tolerance) ==
    CASE tolerance = "conservative" -> {"low"}
      [] tolerance = "moderate" -> {"low", "medium"}
      [] tolerance = "aggressive" -> {"low", "medium", "high"}

\* C2: every returned recommendation has a risk level permitted by the
\* user's tolerance (conservative: low; moderate: low or medium; aggressive:
\* any), and the riskLevel reported is that of the catalog instrument.
C2_RiskLevelPermitted ==
    recCalled =>
        \A i \in RecIndexes :
            /\ recommendations[i].riskLevel
                   \in PermittedLevels(riskAssessment.tolerance)
            /\ InstrumentOf(recommendations[i]).riskLevel
                   = recommendations[i].riskLevel

\* A conservative user for whom the stock scores 60 or more, and who gets
\* recommendations, none of them the stock.
C2_Witness ==
    /\ recCalled
    /\ riskAssessment.tolerance = "conservative"
    /\ recommendations # <<>>
    /\ \E i \in CatalogIndexes :
           /\ bangladeshInvestments[i].riskLevel = "high"
           /\ ScoreOf(bangladeshInvestments[i]) >= 60

\* C3: the returned list is ordered by suitabilityScore descending.
C3_SortedDescending ==
    recCalled =>
        \A i \in 1..(Len(recommendations) - 1) :
            recommendations[i].suitabilityScore
                >= recommendations[i + 1].suitabilityScore

\* A call whose recommendations were pushed in an order that is not the
\* returned one: the sort moved an entry.
C3_Witness ==
    /\ recCalled
    /\ Len(recommendations) >= 3
    /\ recommendations[1].suitabilityScore
           > recommendations[Len(recommendations)].suitabilityScore
    /\ recommendations #
           collectRecommendations(
               filterByRiskTolerance(bangladeshInvestments, riskAssessment.tolerance),
               user, financialProfile, riskAssessment,
               financialProfile.monthlyIncome - financialProfile.monthlyExpenses,
               calculateAssetAllocation(user.age, riskAssessment.tolerance))

\* C4: calculateSuitabilityScore returns an integer in [0, 100] for every
\* catalog instrument and every user context.
C4_ScoreInRange ==
    \A i \in CatalogIndexes : ScoreOf(bangladeshInvestments[i]) \in 0..100

\* A scored context with monthlyIncome = 0, monthlyExpenses = 0 and
\* currentSavings = 0 (the savings rate and the emergency-fund months are
\* both NaN) that still yields recommendations.
C4_Witness ==
    /\ recCalled
    /\ financialProfile.monthlyIncome = 0
    /\ financialProfile.monthlyExpenses = 0
    /\ financialProfile.currentSavings = 0
    /\ recommendations # <<>>

\* C5: for every age in 18..100 and every tolerance, calculateAssetAllocation
\* returns stocks within [10, 80], government <= 40 and bank <= 30.
C5_AllocationBounds ==
    recCalled =>
        /\ allocation[1].stocks >= 10 * PctDen
        /\ allocation[1].stocks <= 80 * PctDen
        /\ allocation[1].government <= 40 * PctDen
        /\ allocation[1].bank <= 30 * PctDen

\* C15: for every age in 18..100 and every tolerance, stocks is computed
\* from base = 100 - age as max(base - 20, 10) for conservative,
\* min(base + 20, 80) for aggressive and base for moderate; bonds =
\* 100 - stocks; government = min(0.6 * bonds, 40); bank =
\* min(0.4 * bonds, 30).
C15_AllocationFormulas ==
    recCalled =>
        LET a == allocation[1]
            base == 100 - user.age
            stocks == a.stocks \div PctDen
            bonds == a.bonds \div PctDen
        IN  /\ a.stocks = stocks * PctDen
            /\ a.bonds = bonds * PctDen
            /\ riskAssessment.tolerance = "conservative" =>
                   stocks = (IF base - 20 > 10 THEN base - 20 ELSE 10)
            /\ riskAssessment.tolerance = "aggressive" =>
                   stocks = (IF base + 20 < 80 THEN base + 20 ELSE 80)
            /\ riskAssessment.tolerance = "moderate" => stocks = base
            /\ bonds = 100 - stocks
            /\ a.government * 10 = (IF 6 * bonds < 400 THEN 6 * bonds ELSE 400) * PctDen
            /\ a.bank * 10 = (IF 4 * bonds < 300 THEN 4 * bonds ELSE 300) * PctDen
            /\ a.governmentBits
                   = (IF 6 * bonds < 400
                      THEN DoubleTimesInt(Double0_6, bonds) ELSE DoubleOfInt(40))
            /\ a.bankBits
                   = (IF 4 * bonds < 300
                      THEN DoubleTimesInt(Double0_4, bonds) ELSE DoubleOfInt(30))

\* A conservative user old enough for the floor of 10 on stocks, with both
\* caps reached.
C15_Witness ==
    /\ recCalled
    /\ riskAssessment.tolerance = "conservative"
    /\ 100 - user.age - 20 < 10
    /\ allocation[1].stocks = 10 * PctDen
    /\ allocation[1].government = 40 * PctDen
    /\ allocation[1].bank = 30 * PctDen

AgeBand(age) == IF age < 30 THEN "under30" ELSE IF age <= 49 THEN "30to49" ELSE "from50"

\* The age-risk fit as tabulated
AgeRiskTable ==
    [under30 |-> [high |-> 25, medium |-> 20, low |-> 15],
     30to49 |-> [medium |-> 25, low |-> 20, high |-> 15],
     from50 |-> [low |-> 25, medium |-> 15, high |-> 10]]

\* The risk-tolerance fit as tabulated
ToleranceTable ==
    [conservative |-> [low |-> 25, medium |-> 0, high |-> 0],
     moderate |-> [medium |-> 25, low |-> 20, high |-> 10],
     aggressive |-> [high |-> 25, medium |-> 20, low |-> 15]]

IncomeTier(fp) ==
    CASE fp.monthlyIncome >= 100000 -> 20
      [] fp.monthlyIncome < 100000 /\ fp.monthlyIncome >= 50000 -> 15
      [] fp.monthlyIncome < 50000 /\ fp.monthlyIncome >= 25000 -> 10
      [] fp.monthlyIncome < 25000 -> 5

\* Tiers of the savings rate (income - expenses) / income at 0.3, 0.2 and
\* 0.1; the lowest tier when income is 0
SavingsTier(fp) ==
    LET saved == fp.monthlyIncome - fp.monthlyExpenses
    IN  CASE fp.monthlyIncome = 0 -> 3
          [] fp.monthlyIncome > 0 /\ 10 * saved >= 3 * fp.monthlyIncome -> 15
          [] fp.monthlyIncome > 0 /\ 10 * saved < 3 * fp.monthlyIncome
                 /\ 10 * saved >= 2 * fp.monthlyIncome -> 12
          [] fp.monthlyIncome > 0 /\ 10 * saved < 2 * fp.monthlyIncome
                 /\ 10 * saved >= fp.monthlyIncome -> 8
          [] fp.monthlyIncome > 0 /\ 10 * saved < fp.monthlyIncome -> 3

DependentsTier(fp) ==
    CASE fp.dependents = 0 -> 10
      [] fp.dependents \in 1..2 -> 7
      [] fp.dependents > 2 -> 3

\* Tiers of savings / expenses at 6 and 3 months
EmergencyTiers(fp) ==
    CASE fp.monthlyExpenses = 0 -> {5, 3, 1}
      [] fp.monthlyExpenses > 0
             /\ fp.currentSavings >= 6 * fp.monthlyExpenses -> {5}
      [] fp.monthlyExpenses > 0
             /\ fp.currentSavings < 6 * fp.monthlyExpenses
             /\ fp.currentSavings >= 3 * fp.monthlyExpenses -> {3}
      [] fp.monthlyExpenses > 0
             /\ fp.currentSavings < 3 * fp.monthlyExpenses -> {1}

\* C17: for every catalog instrument and user context the suitability score
\* is the plain sum of the six tabulated sub-scores (age-risk fit,
\* risk-tolerance fit, income tier, savings-rate tier, dependents tier,
\* emergency-fund tier); age 25, conservative, low risk gives age-risk 15
\* and risk-tolerance 25.
C17_SumOfSubScores ==
    /\ \A i \in CatalogIndexes :
           LET level == bangladeshInvestments[i].riskLevel
           IN  \E e \in EmergencyTiers(financialProfile) :
                   ScoreOf(bangladeshInvestments[i])
                       = AgeRiskTable[AgeBand(user.age)][level]
                         + ToleranceTable[riskAssessment.tolerance][level]
                         + IncomeTier(financialProfile)
                         + SavingsTier(financialProfile)
                         + DependentsTier(financialProfile)
                         + e
    /\ (user.age = 25 /\ riskAssessment.tolerance = "conservative") =>
           \A i \in CatalogIndexes :
               bangladeshInvestments[i].riskLevel = "low" =>
                   /\ ageFactor(user.age, bangladeshInvestments[i].riskLevel) = 15
                   /\ toleranceFactor(riskAssessment.tolerance,
                                      bangladeshInvestments[i].riskLevel) = 25

\* The scenario of the claim: a conservative user of 25 with two dependents
\* who is recommended a low-risk instrument.
C17_Witness ==
    /\ recCalled
    /\ user.age = 25
    /\ riskAssessment.tolerance = "conservative"
    /\ financialProfile.dependents = 2
    /\ \E i \in RecIndexes : recommendations[i].riskLevel = "low"

\* C18: when the savings rate is negative (monthlyExpenses > monthlyIncome)
\* or undefined (monthlyIncome = 0), the savings-rate sub-score is its lowest
\* tier, 3, and the total score is still an integer in [0, 100].
C18_SavingsRateTolerated ==
    (financialProfile.monthlyIncome = 0
     \/ financialProfile.monthlyExpenses > financialProfile.monthlyIncome) =>
        /\ savingsFactor(financialProfile.monthlyIncome,
                         financialProfile.monthlyExpenses) = 3
        /\ \A i \in CatalogIndexes :
               ScoreOf(bangladeshInvestments[i]) \in 0..100
        /\ recCalled =>
               \A i \in RecIndexes :
                   recommendations[i].suitabilityScore \in 60..100

\* A user with no income and positive expenses (the rate is -Infinity) who
\* still gets recommendations.
C18_Witness ==
    /\ recCalled
    /\ financialProfile.monthlyIncome = 0
    /\ financialProfile.monthlyExpenses > 0
    /\ recommendations # <<>>

\* C19: when monthlyExpenses is 0, for every value of currentSavings
\* (including 0), the emergency-fund sub-score is guarded: it is the top
\* tier, 5 (the fund is treated as adequate) or 0 (the sub-score is
\* skipped), and the returned score is a number in [0, 100].
C19_EmergencyGuarded ==
    financialProfile.monthlyExpenses = 0 =>
        /\ emergencyFactor(financialProfile.currentSavings,
                           financialProfile.monthlyExpenses) \in {5, 0}
        /\ \A i \in CatalogIndexes :
               ScoreOf(bangladeshInvestments[i]) \in 0..100

\* The allocation percentage the claim names for a category, in tenths
ClaimedPercentage(category, a) ==
    CASE category = "government" -> a.government
      [] category = "bank" -> a.bank
      [] category \in {"stock", "mutual_fund"} -> a.stocks
      [] OTHER -> 10 * PctDen

\* C20: every returned recommendation has recommendedAmount =
\* max(availableAmount * pct / 100, minInvestment), availableAmount being
\* monthlyIncome - monthlyExpenses and pct exactly allocation.government,
\* allocation.bank or allocation.stocks according to the category (10
\* otherwise), for every age in 18..100, also where allocation.stocks is 0.
C20_AmountFromAllocation ==
    recCalled =>
        \A i \in RecIndexes :
            LET inv == InstrumentOf(recommendations[i])
                availableAmount ==
                    financialProfile.monthlyIncome - financialProfile.monthlyExpenses
                share == availableAmount * ClaimedPercentage(inv.category, allocation[1])
            IN  recommendations[i].recommendedAmount
                    = (IF share > inv.minInvestment * AmountDen
                       THEN share ELSE inv.minInvestment * AmountDen)

\* stocks + government + bank as the code's numbers add up, left to right
AllocationSum(a) ==
    DoublePlus(DoublePlus(DoubleOfInt(a.stocks \div PctDen), a.governmentBits),
               a.bankBits)

\* The 40 cap or the 30 cap is active
CapActive(a) ==
    \/ BigLess(DoubleOfInt(40), DoubleTimesInt(Double0_6, a.bonds \div PctDen))
    \/ BigLess(DoubleOfInt(30), DoubleTimesInt(Double0_4, a.bonds \div PctDen))

\* stocks + bonds = 100, government + bank <= bonds and
\* stocks + government + bank <= 100
AllocationWithinBonds(a) ==
    /\ a.stocks + a.bonds = 100 * PctDen
    /\ ~BigLess(DoubleOfInt(a.bonds \div PctDen),
                DoublePlus(a.governmentBits, a.bankBits))
    /\ ~BigLess(DoubleOfInt(100), AllocationSum(a))

\* C16 as stated: for every age in 18..100 and every tolerance, stocks +
\* bonds = 100 and government + bank <= bonds, so stocks + government + bank
\* never exceeds 100 and equals 100 exactly when neither the 40 cap nor the
\* 30 cap is active.
C16_SumIs100IffUncapped ==
    recCalled =>
        /\ AllocationWithinBonds(allocation[1])
        /\ AllocationSum(allocation[1]) = DoubleOfInt(100)
               <=> ~CapActive(allocation[1])

\* C16, amended: stocks + bonds = 100, government + bank <= bonds and
\* stocks + government + bank never exceeds 100; with a cap active the sum
\* is below 100; with neither cap active it is 100, except for bonds = 57
\* and bonds = 62, where the products are rounded and the sum is the double
\* next below 100 (100 - 2^-46).
C16_SumIs100UpToRounding ==
    recCalled =>
        LET a == allocation[1]
        IN  /\ AllocationWithinBonds(a)
            /\ CapActive(a) => BigLess(AllocationSum(a), DoubleOfInt(100))
            /\ ~CapActive(a) =>
                   IF a.bonds \in {57 * PctDen, 62 * PctDen}
                   THEN BigPlus(AllocationSum(a), <<2 ^ 8>>) = DoubleOfInt(100)
                   ELSE AllocationSum(a) = DoubleOfInt(100)

\* An allocation with bonds = 57 and neither cap active.
C16_Witness ==
    /\ recCalled
    /\ allocation[1].bonds = 57 * PctDen
    /\ ~CapActive(allocation[1])
    /\ AllocationSum(allocation[1]) # DoubleOfInt(100)

\* C21: the second skip (recommendedAmount < minInvestment) never fires:
\* every returned recommendation has recommendedAmount >= its instrument's
\* minInvestment, and every instrument that passes the risk filter with
\* suitability score >= 60 appears in the output.
C21_SecondSkipNeverFires ==
    recCalled =>
        /\ \A i \in RecIndexes :
               recommendations[i].recommendedAmount
                   >= InstrumentOf(recommendations[i]).minInvestment * AmountDen
        /\ \A k \in CatalogIndexes :
               (/\ bangladeshInvestments[k].riskLevel
                       \in PermittedLevels(riskAssessment.tolerance)
                /\ ScoreOf(bangladeshInvestments[k]) >= 60)
               => \E i \in RecIndexes :
                      recommendations[i].investmentType
                          = bangladeshInvestments[k].type

\* A user with a positive available amount whose share for a recommended
\* instrument is below its minimum: Math.max raised the amount to the
\* minimum.
C21_Witness ==
    /\ recCalled
    /\ financialProfile.monthlyIncome > financialProfile.monthlyExpenses
    /\ \E i \in RecIndexes :
           LET inv == InstrumentOf(recommendations[i])
           IN  /\ (financialProfile.monthlyIncome - financialProfile.monthlyExpenses)
                      * ClaimedPercentage(inv.category, allocation[1])
                      < inv.minInvestment * AmountDen
               /\ recommendations[i].recommendedAmount
                      = inv.minInvestment * AmountDen

\* C22: whenever availableAmount = monthlyIncome - monthlyExpenses is zero
\* or negative, generateRecommendations treats it as zero recommendable
\* capacity: every recommendation it returns has recommendedAmount exactly
\* equal to the instrument's minInvestment, never a non-positive amount.
C22_NoCapacityGivesMinimum ==
    (recCalled
     /\ financialProfile.monthlyIncome - financialProfile.monthlyExpenses <= 0) =>
        \A i \in RecIndexes :
            /\ recommendations[i].recommendedAmount
                   = InstrumentOf(recommendations[i]).minInvestment * AmountDen
            /\ recommendations[i].recommendedAmount > 0

\* A user whose expenses exceed the income and who gets recommendations.
C22_Witness ==
    /\ recCalled
    /\ financialProfile.monthlyIncome > 0
    /\ financialProfile.monthlyIncome < financialProfile.monthlyExpenses
    /\ recommendations # <<>>

\* The catalog iteration order the claim names
ClaimedCatalogOrder ==
    << "sanchayapatra", "dps", "fixed_deposit", "mutual_fund", "stock", "bond" >>

\* The position of a recommendation's instrument in the catalog array
CatalogPosition(rec) ==
    CHOOSE k \in CatalogIndexes :
        bangladeshInvestments[k].type = rec.investmentType

\* C25: the catalog is iterated in the order Sanchayapatra, DPS, Fixed
\* Deposit, Mutual Fund, Stock, Government Bond, and recommendations with
\* equal suitabilityScore appear in the output in that order (the sort is
\* stable).
C25_StableSort ==
    /\ [k \in CatalogIndexes |-> bangladeshInvestments[k].type]
           = ClaimedCatalogOrder
    /\ recCalled =>
           \A i, j \in RecIndexes :
               (/\ i < j
                /\ recommendations[i].suitabilityScore
                       = recommendations[j].suitabilityScore)
               => CatalogPosition(recommendations[i])
                      < CatalogPosition(recommendations[j])

\* A call that returned two recommendations with the same score, next to
\* one with a different score.
C25_Witness ==
    /\ recCalled
    /\ \E i, j, k \in RecIndexes :
           /\ i < j
           /\ recommendations[i].suitabilityScore
                  = recommendations[j].suitabilityScore
           /\ recommendations[k].suitabilityScore
                  # recommendations[i].suitabilityScore

\* The six sub-scores of an instrument for the user context, before the
\* clamp
SubScores(inv) ==
    << ageFactor(user.age, inv.riskLevel),
       toleranceFactor(riskAssessment.tolerance, inv.riskLevel),
       incomeFactor(financialProfile.monthlyIncome),
       savingsFactor(financialProfile.monthlyIncome,
                     financialProfile.monthlyExpenses),
       dependentsFactor(financialProfile.dependents),
       emergencyFactor(financialProfile.currentSavings,
                       financialProfile.monthlyExpenses) >>

SubScoreSum(inv) ==
    LET sub == SubScores(inv)
    IN  sub[1] + sub[2] + sub[3] + sub[4] + sub[5] + sub[6]

SubScoreLeast == << 10, 0, 5, 3, 3, 1 >>

SubScoreMost == << 25, 25, 20, 15, 10, 5 >>

\* C26: the final clamp Math.min(score, 100) is never active: for every
\* instrument and user context each sub-score lies between its least and
\* its greatest value (10, 0, 5, 3, 3, 1 and 25, 25, 20, 15, 10, 5), their sum
\* lies in [22, 100] and is the score returned, which is never below 22.
\* Checked on the user context of every call, for all six instruments.
C26_ClampNeverActive ==
    recCalled =>
        \A i \in CatalogIndexes :
            LET inv == bangladeshInvestments[i]
                sub == SubScores(inv)
                sum == sub[1] + sub[2] + sub[3] + sub[4] + sub[5] + sub[6]
                score == ScoreOf(inv)
            IN  /\ \A k \in 1..6 :
                       /\ sub[k] >= SubScoreLeast[k]
                       /\ sub[k] <= SubScoreMost[k]
                /\ sum >= 22
                /\ sum <= 100
                /\ score = sum
                /\ score >= 22

\* A call for a user context in which an instrument's sub-scores add up to
\* 100, the value at which the clamp starts.
C26_Witness ==
    /\ recCalled
    /\ \E i \in CatalogIndexes : SubScoreSum(bangladeshInvestments[i]) = 100

\* A user context in which an instrument's sub-scores add up to 22
C26_LeastReached ==
    \E i \in CatalogIndexes : SubScoreSum(bangladeshInvestments[i]) = 22

\* The categories that have a case of their own in the switch of
\* calculateRecommendedAmount
SwitchCategories == {"government", "bank", "stock", "mutual_fund"}

\* C30: the default branch (10 percent) of calculateRecommendedAmount is
\* never taken for the catalog: every instrument has category government,
\* bank, stock or mutual_fund, the government bond being of category
\* government; and generateRecommendations returns at most one
\* recommendation per instrument type.
C30_DefaultBranchUnreachable ==
    /\ \A k \in CatalogIndexes :
           /\ bangladeshInvestments[k].category \in SwitchCategories
           /\ bangladeshInvestments[k].type = "bond" =>
                  bangladeshInvestments[k].category = "government"
    /\ \A k, l \in CatalogIndexes :
           bangladeshInvestments[k].type = bangladeshInvestments[l].type => k = l
    /\ recCalled =>
           \A i, j \in RecIndexes :
               recommendations[i].investmentType
                   = recommendations[j].investmentType => i = j

\* A call that returned both instruments of category government, the
\* Sanchayapatra amount being the government share and not 10 percent.
C30_Witness ==
    /\ recCalled
    /\ \E i, j \in RecIndexes :
           /\ recommendations[i].investmentType = "sanchayapatra"
           /\ recommendations[j].investmentType = "bond"
           /\ recommendations[i].recommendedAmount
                  = (financialProfile.monthlyIncome
                         - financialProfile.monthlyExpenses)
                    * allocation[1].government
           /\ recommendations[i].recommendedAmount
                  # (financialProfile.monthlyIncome
                         - financialProfile.monthlyExpenses) * 10 * PctDen

\* For an available amount of whole thousands the amount in whole taka is
\* the amount in 1 / AmountDen taka
InTakaAgrees ==
    \A i \in CatalogIndexes :
        LET availableAmount == financialProfile.monthlyIncome
                                   - financialProfile.monthlyExpenses
            alloc == calculateAssetAllocation(user.age, riskAssessment.tolerance)
        IN  availableAmount % 1000 = 0 =>
                calculateRecommendedAmountInTaka(bangladeshInvestments[i],
                                                 availableAmount, alloc) * AmountDen
                    = calculateRecommendedAmount(bangladeshInvestments[i],
                                                 availableAmount, alloc)

\* C27: every recommendation returned by generateRecommendations whose
\* instrument defines maxInvestment has a recommendedAmount (in whole taka,
\* under SpecLarge) that does not exceed that maxInvestment.
C27_WithinMaxInvestment ==
    recCalled =>
        \A i \in RecIndexes :
            LET inv == InstrumentOf(recommendations[i])
            IN  inv.maxInvestment # <<>> =>
                    recommendations[i].recommendedAmount <= inv.maxInvestment[1]

----------------------------------------------------------------------------
(* Properties of useAuthStore, checked under SpecAuth *)

\* C28: in the auth store, in every reachable state, including those where
\* logout runs while a login, register or refreshAuthToken call is still
\* awaiting its timer, isAuthenticated = false implies token = null.
C28_NoTokenWhenLoggedOut ==
    ~authStore.isAuthenticated => authStore.token = <<>>

----------------------------------------------------------------------------
(* Properties of useUserStore, checked under SpecStore *)

\* The sum of a sequence of numbers
RECURSIVE SeqSum(_)
SeqSum(numbers) ==
    IF numbers = <<>> THEN 0 ELSE Head(numbers) + SeqSum(Tail(numbers))

\* A step that is a call of addInvestment or of updateInvestment
PortfolioCall ==
    \/ \E investment \in NewInvestments : AddInvestment(investment)
    \/ \E investmentId \in InvestmentIds, updates \in InvestmentUpdates :
           UpdateInvestment(investmentId, updates)

\* C29: after every call of addInvestment or updateInvestment on a non-null
\* portfolio, portfolio.totalInvestment is the sum of amount and
\* portfolio.totalValue the sum of currentValue over portfolio.investments;
\* when the portfolio is null the call leaves the whole store state
\* unchanged.
C29_TotalsAreSums ==
    [][PortfolioCall =>
          IF userStore.portfolio = <<>>
          THEN userStore' = userStore
          ELSE LET portfolio == userStore'.portfolio[1]
                   amounts == [i \in 1..Len(portfolio.investments) |->
                                  portfolio.investments[i].amount]
                   values == [i \in 1..Len(portfolio.investments) |->
                                 portfolio.investments[i].currentValue]
               IN  /\ portfolio.totalInvestment = SeqSum(amounts)
                   /\ portfolio.totalValue = SeqSum(values)]_vars

\* A portfolio that was handed over with totals of zero, after an
\* investment was added to its one investment and one of the two updated.
C29_Witness ==
    /\ userStoreCall = <<[op |-> "updateInvestment", hadPortfolio |-> TRUE]>>
    /\ userStore.portfolio # <<>>
    /\ Len(userStore.portfolio[1].investments) = 2
    /\ userStore.portfolio[1].investments[1].amount = 4000
    /\ userStore.portfolio[1].investments[2].amount # 4000
    /\ userStore.portfolio[1].totalInvestment
           = 4000 + userStore.portfolio[1].investments[2].amount

----------------------------------------------------------------------------
(* Properties of the questionnaire, checked under SpecScore and SpecRisk *)

OptionScores(question) ==
    {question.options[j].score : j \in 1..Len(question.options)}

Answered(i) == answers[riskQuestions[i].id] # Undefined

AllAnswered == \A i \in 1..Len(riskQuestions) : Answered(i)

\* C6: for every complete answer set (one option selected for each of the
\* 8 questions) the raw score of calculateRiskScore lies in [8, 32]; every
\* question offers exactly 4 options whose scores are exactly 1, 2, 3, 4.
C6_RawScoreRange ==
    /\ Len(riskQuestions) = 8
    /\ \A i \in 1..Len(riskQuestions) :
           /\ Len(riskQuestions[i].options) = 4
           /\ OptionScores(riskQuestions[i]) = {1, 2, 3, 4}
    /\ (assessment # <<>> /\ AllAnswered) =>
           /\ assessment[1].score \in 8..32
           /\ Len(assessment[1].answers) = 8
           /\ \A k \in 1..8 : assessment[1].answers[k].score \in 1..4

\* The highest-scoring complete answer set has been scored.
C6_Witness ==
    /\ assessment # <<>>
    /\ AllAnswered
    /\ answers["q1"] = "under25"
    /\ assessment[1].score = 32

TierRank(tolerance) ==
    CASE tolerance = "conservative" -> 1
      [] tolerance = "moderate" -> 2
      [] tolerance = "aggressive" -> 3

\* C7: classification is monotonic in the raw score: the tier given to the
\* score just computed is never below the tier of a lower raw score and
\* never above the tier of a higher one (conservative < moderate < aggressive).
C7_TierMonotonic ==
    assessment # <<>> =>
        \A r \in 0..maxScoreOf(riskQuestions) :
            LET tierOfR == TierRank(riskToleranceOf(r, maxScoreOf(riskQuestions)))
                tierHere == TierRank(assessment[1].tolerance)
            IN  /\ r <= assessment[1].score => tierOfR <= tierHere
                /\ r >= assessment[1].score => tierOfR >= tierHere

\* A score classified moderate: lower scores exist in the conservative tier
\* and higher ones in the aggressive tier.
C7_Witness ==
    /\ assessment # <<>>
    /\ assessment[1].tolerance = "moderate"
    /\ \E r \in 0..assessment[1].score :
           riskToleranceOf(r, maxScoreOf(riskQuestions)) = "conservative"
    /\ \E r \in assessment[1].score..maxScoreOf(riskQuestions) :
           riskToleranceOf(r, maxScoreOf(riskQuestions)) = "aggressive"

\* C8: under any sequence of handleAnswer, handlePrevious and handleNext,
\* every question with index below currentQuestion is answered, and
\* calculateRiskScore has been invoked only with all 8 questions answered
\* (its result holds an answer record for each of them).
C8_ScoredOnlyWhenComplete ==
    /\ \A i \in 1..currentQuestion : Answered(i)
    /\ assessment # <<>> =>
           /\ AllAnswered
           /\ Len(assessment[1].answers) = Len(riskQuestions)

\* The last question was reached, Next was pressed and the score computed.
C8_Witness ==
    /\ screen = "alert"
    /\ assessment # <<>>
    /\ AllAnswered

\* C14: the tier is decided by scorePercentage = rawScore / 32 * 100:
\* conservative exactly when scorePercentage <= 40 (raw score <= 12),
\* moderate exactly when 40 < scorePercentage <= 70 (raw score 13..22),
\* aggressive exactly when scorePercentage > 70 (raw score >= 23); every raw
\* score gets exactly one tier.
C14_TierCutoffs ==
    assessment # <<>> =>
        LET raw == assessment[1].score
            tier == assessment[1].tolerance
        IN  /\ tier \in {"conservative", "moderate", "aggressive"}
            /\ tier = "conservative" <=> raw * 100 <= 40 * 32
            /\ tier = "moderate" <=> (40 * 32 < raw * 100 /\ raw * 100 <= 70 * 32)
            /\ tier = "aggressive" <=> raw * 100 > 70 * 32
            /\ raw * 100 <= 40 * 32 <=> raw <= 12
            /\ raw * 100 > 70 * 32 <=> raw >= 23

\* The lowest raw score of the moderate tier has been classified.
C14_Witness ==
    /\ assessment # <<>>
    /\ assessment[1].score = 13
    /\ assessment[1].tolerance = "moderate"

\* The sum of the scores of the options selected in questions 1..n
RECURSIVE SumSelected(_)
SumSelected(n) ==
    IF n = 0 THEN 0
    ELSE (IF Answered(n) THEN riskQuestions[n].options[
                                  CHOOSE j \in 1..Len(riskQuestions[n].options) :
                                      riskQuestions[n].options[j].value
                                          = answers[riskQuestions[n].id]].score
          ELSE 0) + SumSelected(n - 1)

\* The tier of a raw score out of 32
TierOfRaw(raw) ==
    IF raw * 100 <= 40 * 32 THEN 1 ELSE IF raw * 100 <= 70 * 32 THEN 2 ELSE 3

\* C24: with fewer than 8 questions answered calculateRiskScore raises no
\* error: the raw score is the sum of the scores of the answered questions
\* only (an unanswered question adds 0 and produces no answer record), the
\* maximum stays 32 (the tier is that of the raw score out of 32), and
\* dropping an answer from the answer set never yields a higher tolerance
\* tier: the set without answer i is scored too, and its tier is the tier
\* of the sum without the score of answer i.
C24_PartialAnswers ==
    assessment # <<>> =>
        LET result == assessment[1]
            answered == {i \in 1..Len(riskQuestions) : Answered(i)}
        IN  /\ result.score = SumSelected(Len(riskQuestions))
            /\ Len(result.answers) = Cardinality(answered)
            /\ {result.answers[k].questionId : k \in 1..Len(result.answers)}
                   = {riskQuestions[i].id : i \in answered}
            /\ TierRank(result.tolerance) = TierOfRaw(result.score)
            /\ \A i \in answered :
                   TierOfRaw(SumSelected(Len(riskQuestions)) - SumSelected(i)
                                 + SumSelected(i - 1))
                       <= TierRank(result.tolerance)

\* An answer set with an unanswered question has been scored, and dropping
\* one more answer lowers the tier.
C24_Witness ==
    /\ assessment # <<>>
    /\ ~AllAnswered
    /\ \E i \in 1..Len(riskQuestions) :
           /\ Answered(i)
           /\ TierRank(calculateRiskScore(
                            riskQuestions,
                            [answers EXCEPT ![riskQuestions[i].id] = Undefined]
                        ).tolerance)
                  < TierRank(assessment[1].tolerance)

----------------------------------------------------------------------------
(* Properties of calculateProjection, checked under SpecProj *)

\* C9: identical inputs give the identical yearlyBreakdown (a second call
\* with the same arguments returns what the first returned), and for
\* positive years the array has exactly `years` entries whose year fields
\* are 1, 2, ..., years in ascending order.
C9_BreakdownLength ==
    /\ (projection # <<>> /\ projArgs.years > 0) =>
           /\ Len(projection[1].yearlyBreakdown) = projArgs.years
           /\ \A i \in 1..Len(projection[1].yearlyBreakdown) :
                  projection[1].yearlyBreakdown[i].year = i
    /\ (projection # <<>> /\ prevProjection # <<>>) =>
           projection[1].yearlyBreakdown = prevProjection[1].yearlyBreakdown

\* Two calls with the same arguments, for the largest number of years.
C9_Witness ==
    /\ projection # <<>>
    /\ prevProjection # <<>>
    /\ projArgs.years = MaxYears
    /\ projArgs.years > 1

\* C10: for every input, totalReturn = futureValue - totalInvestment
\* exactly, and each yearlyBreakdown entry has return = value - investment.
C10_ReturnIsDifference ==
    projection # <<>> =>
        /\ projection[1].totalReturn
               = RatSub(projection[1].futureValue, projection[1].totalInvestment)
        /\ \A i \in 1..Len(projection[1].yearlyBreakdown) :
               LET e == projection[1].yearlyBreakdown[i]
               IN  e.return = RatSub(e.value, e.investment)

\* C11: called with years <= 0, calculateProjection returns an empty
\* yearlyBreakdown, futureValue = initialAmount, totalInvestment =
\* initialAmount and totalReturn = 0, whatever the rate and the monthly
\* contribution.
C11_NonPositiveYears ==
    (projection # <<>> /\ projArgs.years <= 0) =>
        /\ projection[1].yearlyBreakdown = <<>>
        /\ projection[1].futureValue = projArgs.amount
        /\ projection[1].totalInvestment = projArgs.amount
        /\ projection[1].totalReturn = RatInt(0)

\* The unrounded value after k years: v_0 = initialAmount,
\* v_k = (v_{k-1} + 12 * monthlyContribution) * (1 + rate / 100)
RECURSIVE UnroundedValue(_)
UnroundedValue(k) ==
    IF k = 0 THEN projArgs.amount
    ELSE RatMul(RatAdd(UnroundedValue(k - 1),
                       RatMul(RatInt(12), projArgs.monthlyContribution)),
                RatAdd(RatInt(1), RatMul(projArgs.annualReturn, Rat(1, 100))))

\* C23: calculateProjection follows the annual recurrence: for each year k
\* in 1..years, investment_k = initialAmount + 12 * monthlyContribution * k
\* and value_k = round(v_k) for the unrounded v_k, the rounding never being
\* fed back; project(100000, 8.5, years, 0) has year-1 value 108500 and
\* investment 100000 in every year; with rate 0 every year's value equals
\* its investment.
C23_AnnualRecurrence ==
    projection # <<>> =>
        LET breakdown == projection[1].yearlyBreakdown
        IN  /\ \A k \in 1..Len(breakdown) :
                   /\ breakdown[k].investment
                          = RatAdd(projArgs.amount,
                                   RatMul(RatInt(12 * k),
                                          projArgs.monthlyContribution))
                   /\ breakdown[k].value = MathRound(UnroundedValue(k))
            /\ projArgs \in ScenarioArgs =>
                   /\ breakdown[1].value = RatInt(108500)
                   /\ \A k \in 1..Len(breakdown) :
                          breakdown[k].investment = RatInt(100000)
                   /\ projection[1].totalInvestment = RatInt(100000)
            /\ projArgs.annualReturn = RatInt(0) =>
                   \A k \in 1..Len(breakdown) :
                       breakdown[k].value = breakdown[k].investment

\* The parts of C23 that hold: the recurrence and the scenario
C23_RecurrenceOnly ==
    projection # <<>> =>
        LET breakdown == projection[1].yearlyBreakdown
        IN  /\ \A k \in 1..Len(breakdown) :
                   /\ breakdown[k].investment
                          = RatAdd(projArgs.amount,
                                   RatMul(RatInt(12 * k),
                                          projArgs.monthlyContribution))
                   /\ breakdown[k].value = MathRound(UnroundedValue(k))
            /\ projArgs \in ScenarioArgs =>
                   /\ breakdown[1].value = RatInt(108500)
                   /\ projection[1].totalInvestment = RatInt(100000)
            /\ (projArgs.annualReturn = RatInt(0) /\ projArgs.amount.d = 1
                    /\ projArgs.monthlyContribution.d = 1) =>
                   \A k \in 1..Len(breakdown) :
                       breakdown[k].value = breakdown[k].investment

----------------------------------------------------------------------------
(* Properties of the service as a whole, checked under SpecService *)

\* C12: no operation of the recommendation service (generateRecommendations,
\* calculateOptimalPortfolio, calculateProjection, getInvestmentDetails,
\* getAllInvestments) changes the instrument catalog: after any sequence of
\* calls it has the same six entries, in the same order, with the same field
\* values as at start, also for aggressive users, where the filter returns
\* the catalog array itself.
C12_CatalogUnchanged ==
    /\ bangladeshInvestments = Catalog
    /\ Len(bangladeshInvestments) = 6

\* Recommendations were generated for an aggressive user, the sort moved an
\* entry, and a portfolio and a projection have been computed as well.
C12_Witness ==
    /\ recCalled
    /\ riskAssessment.tolerance = "aggressive"
    /\ recommendations #
           collectRecommendations(
               filterByRiskTolerance(bangladeshInvestments, riskAssessment.tolerance),
               user, financialProfile, riskAssessment,
               financialProfile.monthlyIncome - financialProfile.monthlyExpenses,
               calculateAssetAllocation(user.age, riskAssessment.tolerance))
    /\ serviceResult # <<>>
    /\ serviceResult[1].op = "calculateOptimalPortfolio"
    /\ projection # <<>>

\* The fields of each entry that the claim lists
Listed(recs) ==
    [i \in 1..Len(recs) |->
        [investmentType |-> recs[i].investmentType,
         recommendedAmount |-> recs[i].recommendedAmount,
         expectedReturn |-> recs[i].expectedReturn,
         riskLevel |-> recs[i].riskLevel,
         suitabilityScore |-> recs[i].suitabilityScore]]

\* C13: invocations of generateRecommendations for different users may
\* follow one another in any order: each returns exactly the ordered list
\* (investmentType, recommendedAmount, expectedReturn, riskLevel,
\* suitabilityScore per entry) that a lone invocation with the same inputs
\* returns (one made with the catalog as it is at start and no call before
\* it), and so does a repeated call with identical inputs.
C13_SameAsLoneCall ==
    recCalled =>
        Listed(recommendations)
            = Listed(sortRecommendations(
                  collectRecommendations(
                      filterByRiskTolerance(Catalog, riskAssessment.tolerance),
                      user, financialProfile, riskAssessment,
                      financialProfile.monthlyIncome
                          - financialProfile.monthlyExpenses,
                      calculateAssetAllocation(user.age,
                                               riskAssessment.tolerance))))

\* A call has returned a non-empty list for the current user while the
\* portfolio computed last, which invokes generateRecommendations too, holds
\* a different non-empty list: it was made for another user.
C13_Witness ==
    /\ recCalled
    /\ recommendations # <<>>
    /\ serviceResult # <<>>
    /\ serviceResult[1].op = "calculateOptimalPortfolio"
    /\ serviceResult[1].value.recommendations # <<>>
    /\ Listed(serviceResult[1].value.recommendations) # Listed(recommendations)

====
